---- MODULE Spec2Model ----
(***************************************************************************)
(* Binary-analysis orchestration of spectrace: GhidraDecompiler            *)
(* (api/services/ghidra_service.py) and GhidraErrorHandler                 *)
(* (api/middleware/error_handler.py), and the /decompile handler of        *)
(* api/routes/code_routes.py.                                              *)
(*                                                                         *)
(* Texts.  A Python str is modelled as a sequence of atomic tokens: a      *)
(* word, a blank, a punctuation mark or a line feed.  Substring tests      *)
(* (`in`), prefixes, strip, split and join work on token sequences; a      *)
(* needle never starts or ends inside a token.  Case is kept in the        *)
(* tokens and removed by Lower, as str.lower() and re.IGNORECASE do.       *)
(***************************************************************************)
EXTENDS Integers, Sequences, FiniteSets, TLC

\* ------------------------------------------------------------- bounds
\* Number of decompile_binary calls the server may have in flight.
MaxReq == 2
\* Longest stderr, in lines, the tool is let to print in SpecRunner.
MaxStderrLines == 2
\* Most parts an error text handed to the classifier is made of.
MaxErrParts == 2
\* Most bytes that follow a signature, or a cut of one, at the head of
\* a file handed to the validator.
MaxPad == 1
\* Most key/value pairs written into a metadata file.
MaxPairs == 2
\* Most lines of a metadata file handed to the metadata loop alone.
MaxMetaLines == 3

\* ------------------------------------------------------------- texts
LF == "\n"

\* str.lower() on one token.
LowerTok(t) ==
    CASE t = "OpenJDK" -> "openjdk"
      [] t = "OPENJDK" -> "openjdk"
      [] t = "Runtime" -> "runtime"
      [] t = "Environment" -> "environment"
      [] t = "Server" -> "server"
      [] t = "VM" -> "vm"
      [] t = "WARNING" -> "warning"
      [] t = "Warning" -> "warning"
      [] t = "INFO" -> "info"
      [] t = "ERROR" -> "error"
      [] t = "Headless" -> "headless"
      [] t = "sun.awt.X11" -> "sun.awt.x11"
      [] t = "Java" -> "java"
      [] t = "Ghidra" -> "ghidra"
      [] t = "Analysis" -> "analysis"
      [] t = "Binary" -> "binary"
      [] t = "Permission" -> "permission"
      [] t = "Timed" -> "timed"
      [] t = "No" -> "no"
      [] t = "Decompilation" -> "decompilation"
      [] t = "Program" -> "program"
      [] t = "Language" -> "language"
      [] t = "Address" -> "address"
      [] t = "Size" -> "size"
      [] t = "FileName" -> "filename"
      [] t = "Out" -> "out"
      [] t = "PERMISSION" -> "permission"
      [] t = "Boom" -> "boom"
      [] t = "PROGRAM" -> "program"
      [] t = "Started" -> "started"
      [] OTHER -> t

\* str.lower()
Lower(s) == [i \in DOMAIN s |-> LowerTok(s[i])]

\* Python `needle in hay` (case-sensitive).
Contains(hay, needle) ==
    \E i \in 0..(Len(hay) - Len(needle)) :
        SubSeq(hay, i + 1, i + Len(needle)) = needle

\* What open(path, 'r', errors='replace').read() makes of a file's
\* content: universal newlines turn "\r\n" and "\r" into "\n", and a byte
\* that does not decode becomes U+FFFD.
CRLF == "\r\n"
CR == "\r"
BadByte == "\\xff"
Replacement == "\\ufffd"
ReadText(content) ==
    [i \in DOMAIN content |->
        IF content[i] \in {CRLF, CR} THEN LF
        ELSE IF content[i] = BadByte THEN Replacement
        ELSE content[i]]

\* str.startswith
StartsWith(s, p) == Len(p) <= Len(s) /\ SubSeq(s, 1, Len(p)) = p

\* The characters str.strip() removes.
IsSpace(t) == t \in {" ", "\t", "\r", LF}

\* str.strip()
RECURSIVE Strip(_)
Strip(s) ==
    IF s = <<>> THEN <<>>
    ELSE IF IsSpace(s[1]) THEN Strip(Tail(s))
    ELSE IF IsSpace(s[Len(s)]) THEN Strip(SubSeq(s, 1, Len(s) - 1))
    ELSE s

\* str.split(sep) for a one-token separator: always at least one piece.
RECURSIVE Split(_, _)
Split(s, sep) ==
    IF \A i \in DOMAIN s : s[i] # sep THEN <<s>>
    ELSE LET i == CHOOSE k \in DOMAIN s :
                      s[k] = sep /\ \A j \in 1..(k - 1) : s[j] # sep
         IN  <<SubSeq(s, 1, i - 1)>> \o Split(SubSeq(s, i + 1, Len(s)), sep)

\* sep.join(pieces)
RECURSIVE Join(_, _)
Join(pieces, sep) ==
    IF pieces = <<>> THEN <<>>
    ELSE IF Len(pieces) = 1 THEN pieces[1]
    ELSE pieces[1] \o <<sep>> \o Join(Tail(pieces), sep)

\* ------------------------------------------- _filter_stderr_output
\* The ignore_patterns table.  Every pattern but the last has the shape
\* head.*mid.* (mid empty for head.*); the last, ^$, has neither and is
\* not open: it matches the empty line only.
ignore_patterns ==
    << [head |-> <<"openjdk", " ", "version">>, mid |-> <<>>, open |-> TRUE],
       [head |-> <<"OpenJDK", " ", "Runtime", " ", "Environment">>,
        mid |-> <<>>, open |-> TRUE],
       [head |-> <<"OpenJDK">>, mid |-> <<"Server", " ", "VM">>, open |-> TRUE],
       [head |-> <<"WARNING", ":">>, mid |-> <<"sun.awt.X11">>, open |-> TRUE],
       [head |-> <<"WARNING", ":">>, mid |-> <<"headless">>, open |-> TRUE],
       [head |-> <<"INFO", ":">>, mid |-> <<>>, open |-> TRUE],
       [head |-> <<>>, mid |-> <<>>, open |-> FALSE] >>

\* re.match(pattern, line, re.IGNORECASE): anchored at the start of the
\* line, letter case ignored on both sides.
\* (mutation: the IGNORECASE flag is lost)
ReMatch_CaseSensitive(p, line) ==
    /\ StartsWith(line, p.head)
    /\ LET rest == SubSeq(line, Len(p.head) + 1, Len(line))
       IN  IF p.open THEN Contains(rest, p.mid) ELSE rest = <<>>

ReMatch(p, line) ==
    LET l == Lower(line)
        h == Lower(p.head)
        rest == SubSeq(l, Len(h) + 1, Len(l))
    IN  /\ StartsWith(l, h)
        /\ IF p.open THEN Contains(rest, Lower(p.mid)) ELSE rest = <<>>

\* A line is dropped when some pattern of the table matches it.
should_ignore(line) ==
    \E k \in DOMAIN ignore_patterns : ReMatch(ignore_patterns[k], line)

\* (mutation: the patterns are tried on the line as it came, the line
\* is stripped only when it is kept)
RECURSIVE filtered_lines_MatchUnstripped(_)
filtered_lines_MatchUnstripped(lines) ==
    IF lines = <<>> THEN <<>>
    ELSE LET line == Strip(lines[1])
         IN  IF line = <<>> \/ should_ignore(lines[1])
             THEN filtered_lines_MatchUnstripped(Tail(lines))
             ELSE <<line>> \o filtered_lines_MatchUnstripped(Tail(lines))

\* The loop of lines 127-144: each line stripped, skipped when blank or
\* ignored, appended stripped otherwise.
RECURSIVE filtered_lines(_)
filtered_lines(lines) ==
    IF lines = <<>> THEN <<>>
    ELSE LET line == Strip(lines[1])
         IN  IF line = <<>> \/ should_ignore(line)
             THEN filtered_lines(Tail(lines))
             ELSE <<line>> \o filtered_lines(Tail(lines))

_filter_stderr_output(stderr_str) ==
    IF stderr_str = <<>> THEN <<>>
    ELSE Join(filtered_lines(Split(stderr_str, LF)), LF)

\* --------------------------------------------- _run_ghidra_analysis
\* The completion marker the automation script prints (ghidra_service.py
\* line 342) and the success predicate looks for.
Marker == <<"Decompilation", " ", "completed", " ", "successfully">>

TimeoutText ==
    <<"Analysis", " ", "timed", " ", "out", " ", "after", " ", "5", " ",
      "minutes">>

\* (mutation: only a zero exit code counts as success)
RunSuccess_ExitCodeOnly(return_code, filtered_stderr, stdout_str) ==
    return_code = 0

\* (mutation: the marker alone suffices, whatever stderr holds)
RunSuccess_MarkerOnly(return_code, filtered_stderr, stdout_str) ==
    return_code = 0 \/ Contains(stdout_str, Marker)

\* success = return_code == 0 or (not filtered_stderr and marker in stdout)
RunSuccess(return_code, filtered_stderr, stdout_str) ==
    \/ return_code = 0
    \/ (filtered_stderr = <<>> /\ Contains(stdout_str, Marker))

\* What _run_ghidra_analysis returns once communicate() has returned:
\* (success, stdout_str, filtered_stderr).
RunCompleted(return_code, stdout_str, stderr_str) ==
    LET filtered_stderr == _filter_stderr_output(stderr_str)
    IN  [success |-> RunSuccess(return_code, filtered_stderr, stdout_str),
         output |-> stdout_str,
         error |-> filtered_stderr]

\* What it returns on asyncio.TimeoutError, after kill() and wait().
RunTimedOut == [success |-> FALSE, output |-> <<>>, error |-> TimeoutText]

\* What it returns when an exception with text e is caught by the outer
\* handler: (False, "", str(e)).
RunRaised(e) == [success |-> FALSE, output |-> <<>>, error |-> e]

\* ----------------------------------------------- handle_ghidra_error
JavaNotFound ==
    [success |-> FALSE,
     error |-> <<"Java", " ", "runtime", " ", "not", " ", "found">>,
     message |-> <<"Java 17+ is required for Ghidra operations. Please ensure Java is installed and JAVA_HOME is set correctly.">>,
     suggestion |-> <<"Install Java 17+ and set JAVA_HOME environment variable">>]

GhidraNotFound ==
    [success |-> FALSE,
     error |-> <<"Ghidra", " ", "installation", " ", "not", " ", "found">>,
     message |-> <<"Ghidra installation directory not found. Please ensure Ghidra is properly installed.">>,
     suggestion |-> <<"Set GHIDRA_INSTALL_DIR environment variable to your Ghidra installation path">>]

AnalysisTimeout ==
    [success |-> FALSE,
     error |-> <<"Analysis", " ", "timeout">>,
     message |-> <<"Binary analysis took too long and was terminated. This may happen with very large or complex binaries.">>,
     suggestion |-> <<"Try with a smaller binary or increase timeout limits">>]

PermissionDenied ==
    [success |-> FALSE,
     error |-> <<"Permission", " ", "denied">>,
     message |-> <<"Insufficient permissions to access required files or directories.">>,
     suggestion |-> <<"Check file permissions and ensure the application has write access to temporary directories">>]

InsufficientMemory ==
    [success |-> FALSE,
     error |-> <<"Insufficient", " ", "memory">>,
     message |-> <<"Not enough memory available for binary analysis. This can happen with very large binaries.">>,
     suggestion |-> <<"Try with a smaller binary or increase available memory for the Java process">>]

UnsupportedFormat ==
    [success |-> FALSE,
     error |-> <<"Unsupported", " ", "binary", " ", "format">>,
     message |-> <<"The uploaded file format is not supported by Ghidra for analysis.">>,
     suggestion |-> <<"Ensure the file is a valid binary (ELF, PE, Mach-O, or raw binary)">>]

\* (mutation: the generic message quotes the lowered text)
GenericError_Lowercased(error, context) ==
    [success |-> FALSE,
     error |-> context \o <<" ", "failed">>,
     message |-> <<"An error occurred during", " ">> \o Lower(context)
                     \o <<":", " ">> \o Lower(error),
     suggestion |-> <<"Please check the binary file and try again">>]

GenericError(error, context) ==
    [success |-> FALSE,
     error |-> context \o <<" ", "failed">>,
     message |-> <<"An error occurred during", " ">> \o Lower(context)
                     \o <<":", " ">> \o error,
     suggestion |-> <<"Please check the binary file and try again">>]

\* (mutation: the permission test stands before the timeout test)
handle_ghidra_error_PermissionFirst(error, context) ==
    LET error_msg == Lower(error)
        has(needle) == Contains(error_msg, needle)
    IN  IF has(<<"java">>) /\ has(<<"not", " ", "found">>)
        THEN JavaNotFound
        ELSE IF has(<<"ghidra">>)
                /\ (has(<<"not", " ", "found">>)
                    \/ has(<<"no", " ", "such", " ", "file">>))
        THEN GhidraNotFound
        ELSE IF has(<<"permission">>) \/ has(<<"denied">>)
        THEN PermissionDenied
        ELSE IF has(<<"timeout">>) \/ has(<<"timed", " ", "out">>)
        THEN AnalysisTimeout
        ELSE IF has(<<"memory">>) \/ has(<<"heap">>)
        THEN InsufficientMemory
        ELSE IF has(<<"unsupported">>) \/ has(<<"unknown", " ", "format">>)
        THEN UnsupportedFormat
        ELSE GenericError(error, context)

\* (mutation: the memory test looks for "memory" only)
handle_ghidra_error_NoHeap(error, context) ==
    LET error_msg == Lower(error)
        has(needle) == Contains(error_msg, needle)
    IN  IF has(<<"java">>) /\ has(<<"not", " ", "found">>)
        THEN JavaNotFound
        ELSE IF has(<<"ghidra">>)
                /\ (has(<<"not", " ", "found">>)
                    \/ has(<<"no", " ", "such", " ", "file">>))
        THEN GhidraNotFound
        ELSE IF has(<<"timeout">>) \/ has(<<"timed", " ", "out">>)
        THEN AnalysisTimeout
        ELSE IF has(<<"permission">>) \/ has(<<"denied">>)
        THEN PermissionDenied
        ELSE IF has(<<"memory">>)
        THEN InsufficientMemory
        ELSE IF has(<<"unsupported">>) \/ has(<<"unknown", " ", "format">>)
        THEN UnsupportedFormat
        ELSE GenericError(error, context)

\* handle_ghidra_error(error, context), error being str(error).
handle_ghidra_error(error, context) ==
    LET error_msg == Lower(error)
        has(needle) == Contains(error_msg, needle)
    IN  IF has(<<"java">>) /\ has(<<"not", " ", "found">>)
        THEN JavaNotFound
        ELSE IF has(<<"ghidra">>)
                /\ (has(<<"not", " ", "found">>)
                    \/ has(<<"no", " ", "such", " ", "file">>))
        THEN GhidraNotFound
        ELSE IF has(<<"timeout">>) \/ has(<<"timed", " ", "out">>)
        THEN AnalysisTimeout
        ELSE IF has(<<"permission">>) \/ has(<<"denied">>)
        THEN PermissionDenied
        ELSE IF has(<<"memory">>) \/ has(<<"heap">>)
        THEN InsufficientMemory
        ELSE IF has(<<"unsupported">>) \/ has(<<"unknown", " ", "format">>)
        THEN UnsupportedFormat
        ELSE GenericError(error, context)

\* ---------------------------------------------------- _parse_results
\* A Python dict is a function whose domain is its set of keys.
EmptyDict == <<>>

DictSet(d, k, v) ==
    [x \in (DOMAIN d) \cup {k} |-> IF x = k THEN v ELSE d[x]]

\* str.replace(old, new) for one-token old and new.
Replace(s, old, new) == [i \in DOMAIN s |-> IF s[i] = old THEN new ELSE s[i]]

\* (mutation: the line is split at its last colon)
SplitFirstColon_Last(line) ==
    LET i == CHOOSE k \in DOMAIN line :
                 line[k] = ":" /\ \A j \in (k + 1)..Len(line) : line[j] # ":"
    IN  [key |-> SubSeq(line, 1, i - 1),
         value |-> SubSeq(line, i + 1, Len(line))]

\* line.split(':', 1) of a line that holds a colon: the text before the
\* first colon and everything after it.
SplitFirstColon(line) ==
    LET i == CHOOSE k \in DOMAIN line :
                 line[k] = ":" /\ \A j \in 1..(k - 1) : line[j] # ":"
    IN  [key |-> SubSeq(line, 1, i - 1),
         value |-> SubSeq(line, i + 1, Len(line))]

\* (mutation: the key keeps its letter case)
RECURSIVE ParseMetadataLines_NoLower(_, _)
ParseMetadataLines_NoLower(lines, metadata) ==
    IF lines = <<>> THEN metadata
    ELSE LET line == lines[1]
         IN  IF \E i \in DOMAIN line : line[i] = ":"
             THEN LET kv == SplitFirstColon(line)
                      key == Replace(Strip(kv.key), " ", "_")
                  IN  ParseMetadataLines_NoLower(Tail(lines),
                          DictSet(metadata, key, Strip(kv.value)))
             ELSE ParseMetadataLines_NoLower(Tail(lines), metadata)

\* (mutation: a key already in the mapping keeps its first value)
RECURSIVE ParseMetadataLines_FirstWins(_, _)
ParseMetadataLines_FirstWins(lines, metadata) ==
    IF lines = <<>> THEN metadata
    ELSE LET line == lines[1]
         IN  IF \E i \in DOMAIN line : line[i] = ":"
             THEN LET kv == SplitFirstColon(line)
                      key == Replace(Lower(Strip(kv.key)), " ", "_")
                  IN  ParseMetadataLines_FirstWins(Tail(lines),
                          IF key \in DOMAIN metadata THEN metadata
                          ELSE DictSet(metadata, key, Strip(kv.value)))
             ELSE ParseMetadataLines_FirstWins(Tail(lines), metadata)

\* The loop over metadata_content.strip().split('\n'), from the mapping
\* gathered so far.
RECURSIVE ParseMetadataLines(_, _)
ParseMetadataLines(lines, metadata) ==
    IF lines = <<>> THEN metadata
    ELSE LET line == lines[1]
         IN  IF \E i \in DOMAIN line : line[i] = ":"
             THEN LET kv == SplitFirstColon(line)
                      key == Replace(Lower(Strip(kv.key)), " ", "_")
                  IN  ParseMetadataLines(Tail(lines),
                          DictSet(metadata, key, Strip(kv.value)))
             ELSE ParseMetadataLines(Tail(lines), metadata)

ParseMetadata(metadata_content, metadata) ==
    ParseMetadataLines(Split(Strip(metadata_content), LF), metadata)

\* results as _parse_results seeds it (lines 424-428).
InitialResults(filename) ==
    [assembly_code |-> <<>>,
     decompiled_code |-> <<>>,
     metadata |-> DictSet(EmptyDict, <<"filename">>, filename)]

\* ------------------------------------------------ validate_binary_file
\* The ceiling of lines 498 and 73 of code_routes.py.
MaxFileSize == 100 * 1024 * 1024

\* f.read(16)
MagicLen == 16

Min(a, b) == IF a <= b THEN a ELSE b

\* A file is its size and its leading bytes; the bytes after them, up
\* to the size, are zero.  The path that names no file is Missing.
Missing == [missing |-> TRUE]

\* open(file_path, 'rb').read(16)
ReadMagic(file) ==
    [i \in 1..Min(file.size, MagicLen) |->
        IF i <= Len(file.lead) THEN file.lead[i] ELSE 0]

\* The table of lines 506-513.
binary_magics ==
    << <<127, 69, 76, 70>>,
       <<77, 90>>,
       <<254, 237, 250>>,
       <<254, 237, 250, 206>>,
       <<207, 250, 237, 254>>,
       <<202, 254, 186, 190>> >>

\* any(magic.startswith(sig) for sig in binary_magics)
is_binary(magic) ==
    \E k \in DOMAIN binary_magics : StartsWith(magic, binary_magics[k])

FileMissingText == <<"File does not exist">>
FileEmptyText == <<"File is empty">>
FileTooLargeText == <<"File too large", " ", "(max 100MB)">>
CautionText ==
    <<"File format not clearly identified, proceeding with", " ", "caution">>
ValidText == <<"Valid binary file">>

\* (mutation: a file of exactly the ceiling is refused)
validate_binary_file_CeilingRefused(file) ==
    IF file = Missing
    THEN [is_valid |-> FALSE, message |-> FileMissingText]
    ELSE IF file.size = 0
    THEN [is_valid |-> FALSE, message |-> FileEmptyText]
    ELSE IF file.size >= MaxFileSize
    THEN [is_valid |-> FALSE, message |-> FileTooLargeText]
    ELSE IF ~is_binary(ReadMagic(file))
    THEN [is_valid |-> TRUE, message |-> CautionText]
    ELSE [is_valid |-> TRUE, message |-> ValidText]

\* (mutation: a file one byte over the ceiling still passes)
validate_binary_file_OneOver(file) ==
    IF file = Missing
    THEN [is_valid |-> FALSE, message |-> FileMissingText]
    ELSE IF file.size = 0
    THEN [is_valid |-> FALSE, message |-> FileEmptyText]
    ELSE IF file.size > MaxFileSize + 1
    THEN [is_valid |-> FALSE, message |-> FileTooLargeText]
    ELSE IF ~is_binary(ReadMagic(file))
    THEN [is_valid |-> TRUE, message |-> CautionText]
    ELSE [is_valid |-> TRUE, message |-> ValidText]

\* validate_binary_file(file_path) for a path that names `file`, read
\* without an error of the operating system.
validate_binary_file(file) ==
    IF file = Missing
    THEN [is_valid |-> FALSE, message |-> FileMissingText]
    ELSE IF file.size = 0
    THEN [is_valid |-> FALSE, message |-> FileEmptyText]
    ELSE IF file.size > MaxFileSize
    THEN [is_valid |-> FALSE, message |-> FileTooLargeText]
    ELSE IF ~is_binary(ReadMagic(file))
    THEN [is_valid |-> TRUE, message |-> CautionText]
    ELSE [is_valid |-> TRUE, message |-> ValidText]

\* =================================================== the state machine
VARIABLES
    pid,          \* os.getpid() of the server process
    fs,           \* workspace directories that exist under temp_dir:
                  \*   path -> (file name -> [by, text])
    pc,           \* per call: where decompile_binary stands
    project_dir,  \* per call: the local project_dir
    child,        \* per call: the tool process, "none" | "running" |
                  \*   "killed" | "reaped"
    proc,         \* per call: returncode, stdout and stderr of the child
    run,          \* per call: what _run_ghidra_analysis returned
    results,      \* per call: the dict _parse_results is filling
    result,       \* per call: the dict decompile_binary returned
    created,      \* per call: directories its mkdir really created
    raised,       \* per call: the step an exception came from
    timed_out,    \* per call: the deadline expired in wait_for
    read_from,    \* per call: whose tool wrote the files it parsed
    trace,        \* per call: the steps it has taken, in order
    service,      \* the GhidraDecompiler of the server: whether it was
                  \*   constructed, and whether analyzeHeadless exists
    http,         \* per request: where the /decompile handler stands,
                  \*   the upload, the temporary file, the response
    arg,          \* the input of the one function a function-level
                  \*   specification applies
    ret           \* what that function returned

vars == <<pid, fs, pc, project_dir, child, proc, run, results, result,
          created, raised, timed_out, read_from, trace, service, http,
          arg, ret>>

\* The variables of the decompile_binary calls.
callVars == <<pid, fs, pc, project_dir, child, proc, run, results, result,
              created, raised, timed_out, read_from, trace, service>>

Requests == 1..MaxReq

\* Process ids the server may run under.
Pids == {4711}

None == [none |-> TRUE]

\* self.temp_dir (line 32) and the names of lines 164-165.
temp_dir == "/tmp/ghidra_projects"
project_name(p) == <<"temp_project_", p>>
ProjectDir(p) == <<temp_dir, project_name(p)>>
\* The staging root itself, as a directory of the filesystem.
StagingRoot == <<temp_dir>>

ScriptFile == "DecompileAll.java"
AsmFile == "assembly_output.txt"
DecFile == "decompiled_output.txt"
MetaFile == "metadata_output.txt"

\* The filename argument of every call.
Filename == <<"firmware.bin">>

\* The context handed to the classifier at line 196.
Context == <<"Binary", " ", "decompilation">>

\* Texts of the exceptions of a step: ErrorTexts are those the
\* environment may raise anywhere, ENoEntry is what opening a file or
\* starting a process in a directory that is gone raises.
EPermission == <<"Permission", " ", "denied">>
ENoEntry == <<"No", " ", "such", " ", "file", " ", "or", " ", "directory">>
ErrorTexts == {EPermission}

\* ----------------------------------------------------- the tool's runs
StdoutDone == <<"INFO", " ", "script", LF>> \o Marker \o <<" ", "-", " ", "processed">>
StdoutSamples ==
    { <<>>,
      StdoutDone,
      <<"Starting", " ", "script">>,
      <<"decompilation", " ", "completed", " ", "successfully">> }

\* Lines the tool and the Java runtime print on stderr.
BannerLines ==
    { <<"openjdk", " ", "version", " ", "17.0.9">>,
      <<"OpenJDK", " ", "Runtime", " ", "Environment", " ", "(build)">>,
      <<"OpenJDK", " ", "64-Bit", " ", "Server", " ", "VM">> }
HeadlessLines ==
    { <<"WARNING", ":", " ", "running", " ", "in", " ", "headless", " ", "mode">>,
      <<" ", "Warning", ":", " ", "Headless">> }
GenuineLines ==
    { <<"Java", " ", "not", " ", "found">>,
      <<"java", " ", "version", " ", "17">>,
      <<"fatal", " ", "WARNING", ":", " ", "headless">> }
OtherLines ==
    { <<>>,
      <<" ", "\t">>,
      <<"INFO", ":", " ", "started">>,
      <<"WARNING", ":", " ", "sun.awt.X11", " ", "missing">> }
StderrLines == BannerLines \cup HeadlessLines \cup GenuineLines \cup OtherLines

StderrTexts ==
    { Join(ls, LF) :
        ls \in UNION { [1..n -> StderrLines] : n \in 0..MaxStderrLines } }

\* The three files the automation script writes (lines 231-233).
FilesWritten ==
    (AsmFile :> <<"=== Summary ===", LF, "Total", ":", " ", "1", LF>>)
    @@ (DecFile :> <<LF, "// Function: main", LF, "int main(void)", LF, LF>>)
    @@ (MetaFile :> <<"Program", ":", " ", "fw", LF,
                      "Language", ":", " ", "x86", ":", "LE", LF>>)
NoFiles == <<>>

ExitCodes == {0, 1}

\* Every run of the tool considered in SpecRunner.
AllToolRuns ==
    [returncode : ExitCodes, stdout : StdoutSamples, stderr : StderrTexts,
     files : {NoFiles, FilesWritten}]

\* The runs considered when several calls interleave: a clean run and
\* a failed run.
ToolRuns ==
    { [returncode |-> 0, stdout |-> StdoutDone, stderr |-> <<>>,
       files |-> FilesWritten],
      [returncode |-> 1, stdout |-> <<>>,
       stderr |-> <<"Java", " ", "not", " ", "found">>,
       files |-> NoFiles] }

\* ------------------------------------------------------ decompile_binary
\* No call of decompile_binary has begun.  The filesystem holds the
\* staging root once __init__ has run its line 33, nothing before.
NoCalls ==
    /\ pid \in Pids
    /\ fs = IF service.state = "unbuilt"
            THEN <<>>
            ELSE [d \in {StagingRoot} |-> <<>>]
    /\ pc = [r \in Requests |-> "idle"]
    /\ project_dir = [r \in Requests |-> <<>>]
    /\ child = [r \in Requests |-> "none"]
    /\ proc = [r \in Requests |-> None]
    /\ run = [r \in Requests |-> None]
    /\ results = [r \in Requests |-> None]
    /\ result = [r \in Requests |-> None]
    /\ created = [r \in Requests |-> 0]
    /\ raised = [r \in Requests |-> "none"]
    /\ timed_out = [r \in Requests |-> FALSE]
    /\ read_from = [r \in Requests |-> {}]
    /\ trace = [r \in Requests |-> <<>>]

\* __init__ has returned: the launcher was found (lines 36-39).
Constructed == service = [state |-> "ready", launcher |-> TRUE]

\* No request has arrived at the /decompile route.
NoRequest ==
    [stage |-> "none", upload |-> None, temp |-> FALSE,
     validation |-> None, response |-> None]
NoRequests == http = [r \in Requests |-> NoRequest]

Init ==
    /\ Constructed
    /\ NoCalls
    /\ NoRequests
    /\ arg = None
    /\ ret = None

\* project_dir.exists()
Exists(files, dir) == dir \in DOMAIN files

\* project_dir.mkdir(exist_ok=True)
Mkdir(files, dir) ==
    IF Exists(files, dir) THEN files
    ELSE [d \in (DOMAIN files) \cup {dir} |->
             IF d = dir THEN <<>> ELSE files[d]]

\* (mutation: the finally clause removes the staging root, and with it
\* every directory under it)
Cleanup_Root(files, dir) ==
    IF Exists(files, dir)
    THEN <<>>
    ELSE files

\* The finally clause (lines 203-206): rmtree of project_dir if it exists.
Cleanup(files, dir) ==
    IF Exists(files, dir)
    THEN [d \in (DOMAIN files) \ {dir} |-> files[d]]
    ELSE files

\* Writing file `name` with `text` into directory `dir`, by call r.
WriteFile(files, dir, name, text, r) ==
    [files EXCEPT ![dir] =
        [n \in (DOMAIN @) \cup {name} |->
            IF n = name THEN [by |-> r, text |-> text] ELSE @[n]]]

HasFile(files, dir, name) == Exists(files, dir) /\ name \in DOMAIN files[dir]

FailurePrefix == <<"Ghidra", " ", "analysis", " ", "failed", ":", " ">>

\* The dict of lines 180-186.
FailureResult(error) ==
    [success |-> FALSE,
     error |-> FailurePrefix \o error,
     assembly_code |-> <<>>,
     decompiled_code |-> <<>>,
     metadata |-> EmptyDict]

\* (mutation: the classifier's dict is returned without the update of
\* lines 197-201)
ErrorResponse_NoUpdate(e) == handle_ghidra_error(e, Context)

\* The dict of lines 196-202: the classifier's dict, updated.
ErrorResponse(e) ==
    LET c == handle_ghidra_error(e, Context)
    IN  [success |-> c.success,
         error |-> c.error,
         message |-> c.message,
         suggestion |-> c.suggestion,
         assembly_code |-> <<>>,
         decompiled_code |-> <<>>,
         metadata |-> EmptyDict]

\* (mutation: the success dict is built afresh and loses the metadata)
SuccessResult_NoMetadata(res) ==
    [success |-> TRUE,
     assembly_code |-> res.assembly_code,
     decompiled_code |-> res.decompiled_code,
     metadata |-> EmptyDict]

\* The dict of lines 189-192: the parser's results with success set.
SuccessResult(res) ==
    [success |-> TRUE,
     assembly_code |-> res.assembly_code,
     decompiled_code |-> res.decompiled_code,
     metadata |-> res.metadata]

\* The step that fixed the value to return: the success dict or a
\* failure dict was built.
Built(value) == IF value.success THEN "succeed" ELSE "fail"

\* (mutation: rmtree without ignore_errors - a failed removal escapes
\* and the caller holds the exception in place of the value)
Return_CleanupRaises(r, value, files, dir) ==
    /\ pc' = [pc EXCEPT ![r] = "done"]
    /\ \/ /\ result' = [result EXCEPT ![r] = value]
          /\ fs' = Cleanup(files, dir)
          /\ trace' = [trace EXCEPT ![r] =
                          @ \o <<Built(value),
                                 IF Exists(files, dir)
                                 THEN "destroy" ELSE "destroy_noop",
                                 "return">>]
       \/ /\ Exists(files, dir)
          /\ result' = [result EXCEPT ![r] = [raises |-> EPermission]]
          /\ fs' = files
          /\ trace' = [trace EXCEPT ![r] =
                          @ \o <<Built(value), "destroy_failed", "return">>]

\* (mutation: rmtree without the exists() test - a directory already
\* gone makes the removal raise)
Return_GoneRaises(r, value, files, dir) ==
    /\ pc' = [pc EXCEPT ![r] = "done"]
    /\ \/ /\ result' = [result EXCEPT ![r] =
                           IF Exists(files, dir)
                           THEN value ELSE [raises |-> ENoEntry]]
          /\ fs' = Cleanup(files, dir)
          /\ trace' = [trace EXCEPT ![r] =
                          @ \o <<Built(value),
                                 IF Exists(files, dir)
                                 THEN "destroy" ELSE "destroy_noop",
                                 "return">>]
       \/ /\ Exists(files, dir)
          /\ result' = [result EXCEPT ![r] = value]
          /\ fs' = files
          /\ trace' = [trace EXCEPT ![r] =
                          @ \o <<Built(value), "destroy_failed", "return">>]

\* The end of every path: the value to return is fixed, the finally
\* clause runs on the files as they are, and the call returns.  The
\* clause removes the directory ("destroy"), finds it gone and does
\* nothing ("destroy_noop"), or - rmtree having ignore_errors=True -
\* meets an error of the operating system, leaves the directory and
\* raises nothing ("destroy_failed").
Return(r, value, files, dir) ==
    /\ result' = [result EXCEPT ![r] = value]
    /\ pc' = [pc EXCEPT ![r] = "done"]
    /\ \/ /\ fs' = Cleanup(files, dir)
          /\ trace' = [trace EXCEPT ![r] =
                          @ \o <<Built(value),
                                 IF Exists(files, dir)
                                 THEN "destroy" ELSE "destroy_noop",
                                 "return">>]
       \/ /\ Exists(files, dir)
          /\ fs' = files
          /\ trace' = [trace EXCEPT ![r] =
                          @ \o <<Built(value), "destroy_failed", "return">>]

\* (mutation: the call goes from mkdir to the launch, no script written)
Begin_SkipsScript(r) ==
    /\ pc[r] = "idle"
    /\ project_dir' = [project_dir EXCEPT ![r] = ProjectDir(pid)]
    /\ \/ /\ created' = [created EXCEPT ![r] =
                            IF Exists(fs, ProjectDir(pid)) THEN @ ELSE @ + 1]
          /\ fs' = Mkdir(fs, ProjectDir(pid))
          /\ pc' = [pc EXCEPT ![r] = "launch"]
          /\ trace' = [trace EXCEPT ![r] = @ \o <<"create">>]
          /\ UNCHANGED <<result, raised>>
       \/ /\ ~Exists(fs, ProjectDir(pid))
          /\ \E e \in ErrorTexts :
                Return(r, ErrorResponse(e), fs, ProjectDir(pid))
          /\ raised' = [raised EXCEPT ![r] = "mkdir"]
          /\ UNCHANGED created
    /\ UNCHANGED <<service, http, arg, ret,
                   pid, child, proc, run, results, timed_out, read_from>>

\* (mutation: the wait for the tool holds the event loop - no call
\* begins while another waits for its child)
Begin_WhileNoneWaits(r) ==
    /\ pc[r] = "idle"
    /\ \A q \in Requests : pc[q] \notin {"wait", "reap"}
    /\ project_dir' = [project_dir EXCEPT ![r] = ProjectDir(pid)]
    /\ \/ /\ created' = [created EXCEPT ![r] =
                            IF Exists(fs, ProjectDir(pid)) THEN @ ELSE @ + 1]
          /\ fs' = Mkdir(fs, ProjectDir(pid))
          /\ pc' = [pc EXCEPT ![r] = "script"]
          /\ trace' = [trace EXCEPT ![r] = @ \o <<"create">>]
          /\ UNCHANGED <<result, raised>>
       \/ /\ ~Exists(fs, ProjectDir(pid))
          /\ \E e \in ErrorTexts :
                Return(r, ErrorResponse(e), fs, ProjectDir(pid))
          /\ raised' = [raised EXCEPT ![r] = "mkdir"]
          /\ UNCHANGED created
    /\ UNCHANGED <<service, http, arg, ret,
                   pid, child, proc, run, results, timed_out, read_from>>

\* Lines 164-169.  The call starts: the names are computed and the
\* directory is made; mkdir may fail when it has to create.
Begin(r) ==
    /\ pc[r] = "idle"
    /\ project_dir' = [project_dir EXCEPT ![r] = ProjectDir(pid)]
    /\ \/ /\ created' = [created EXCEPT ![r] =
                            IF Exists(fs, ProjectDir(pid)) THEN @ ELSE @ + 1]
          /\ fs' = Mkdir(fs, ProjectDir(pid))
          /\ pc' = [pc EXCEPT ![r] = "script"]
          /\ trace' = [trace EXCEPT ![r] = @ \o <<"create">>]
          /\ UNCHANGED <<result, raised>>
       \/ /\ ~Exists(fs, ProjectDir(pid))
          /\ \E e \in ErrorTexts :
                Return(r, ErrorResponse(e), fs, ProjectDir(pid))
          /\ raised' = [raised EXCEPT ![r] = "mkdir"]
          /\ UNCHANGED created
    /\ UNCHANGED <<service, http, arg, ret,
                   pid, child, proc, run, results, timed_out, read_from>>

\* Lines 172 and 353-357.  The script is written into the directory;
\* opening it fails when the directory is gone, and may fail otherwise.
WriteScript(r) ==
    /\ pc[r] = "script"
    /\ \/ /\ Exists(fs, project_dir[r])
          /\ fs' = WriteFile(fs, project_dir[r], ScriptFile, <<"DecompileAll">>, r)
          /\ pc' = [pc EXCEPT ![r] = "launch"]
          /\ trace' = [trace EXCEPT ![r] = @ \o <<"script">>]
          /\ UNCHANGED <<result, raised>>
       \/ /\ \E e \in (IF Exists(fs, project_dir[r])
                         THEN ErrorTexts ELSE {ENoEntry}) :
                Return(r, ErrorResponse(e), fs, project_dir[r])
          /\ raised' = [raised EXCEPT ![r] = "script"]
    /\ UNCHANGED <<service, http, arg, ret,
                   pid, project_dir, child, proc, run, results, created,
                   timed_out, read_from>>

\* Lines 363-388 and 418-420.  create_subprocess_exec starts the child
\* in the directory, or raises; the outer handler turns the exception
\* into a failed run, which decompile_binary returns at once.
Launch(r) ==
    /\ pc[r] = "launch"
    /\ \/ /\ Exists(fs, project_dir[r])
          /\ child' = [child EXCEPT ![r] = "running"]
          /\ pc' = [pc EXCEPT ![r] = "wait"]
          /\ trace' = [trace EXCEPT ![r] = @ \o <<"launch">>]
          /\ UNCHANGED <<fs, run, result, raised>>
       \/ /\ \E e \in (IF Exists(fs, project_dir[r])
                         THEN ErrorTexts ELSE {ENoEntry}) :
                /\ run' = [run EXCEPT ![r] = RunRaised(e)]
                /\ Return(r, FailureResult(e), fs, project_dir[r])
          /\ raised' = [raised EXCEPT ![r] = "launch"]
          /\ UNCHANGED child
    /\ UNCHANGED <<service, http, arg, ret,
                   pid, project_dir, proc, results, created, timed_out,
                   read_from>>

\* The files of a run, written by the child of call r into its working
\* directory if that path exists.
RECURSIVE WriteAll(_, _, _, _, _)
WriteAll(files, dir, names, texts, r) ==
    IF names = {} THEN files
    ELSE LET n == CHOOSE x \in names : TRUE
         IN  WriteAll(WriteFile(files, dir, n, texts[n], r), dir,
                      names \ {n}, texts, r)

\* The child ends by itself with run t: its output is complete, its
\* files are on disk, and the event loop has collected its exit status.
ChildExit(r, t) ==
    /\ child[r] = "running"
    /\ child' = [child EXCEPT ![r] = "reaped"]
    /\ proc' = [proc EXCEPT ![r] =
                   [returncode |-> t.returncode, stdout |-> t.stdout,
                    stderr |-> t.stderr]]
    /\ fs' = IF Exists(fs, project_dir[r])
             THEN WriteAll(fs, project_dir[r], DOMAIN t.files, t.files, r)
             ELSE fs
    /\ UNCHANGED <<trace, service, http, arg, ret,
                   pid, pc, project_dir, run, results, result, created,
                   raised, timed_out, read_from>>

\* (mutation: the results are parsed whatever the run returned)
CommunicateReturn_AlwaysParses(r) ==
    /\ pc[r] = "wait"
    /\ child[r] = "reaped"
    /\ LET res == RunCompleted(proc[r].returncode, proc[r].stdout,
                               proc[r].stderr)
       IN  /\ run' = [run EXCEPT ![r] = res]
           /\ IF TRUE
              THEN /\ results' = [results EXCEPT ![r] = InitialResults(Filename)]
                   /\ pc' = [pc EXCEPT ![r] = "parse_asm"]
                   /\ trace' = [trace EXCEPT ![r] = @ \o <<"parse">>]
                   /\ UNCHANGED <<fs, result>>
              ELSE /\ Return(r, FailureResult(res.error), fs, project_dir[r])
                   /\ UNCHANGED results
    /\ UNCHANGED <<service, http, arg, ret,
                   pid, project_dir, child, proc, created, raised,
                   timed_out, read_from>>

\* Lines 392-411 and 179-189.  communicate() returns before the
\* deadline; the run is classified; a failed run is returned at once,
\* a successful one goes on to _parse_results.
CommunicateReturn(r) ==
    /\ pc[r] = "wait"
    /\ child[r] = "reaped"
    /\ LET res == RunCompleted(proc[r].returncode, proc[r].stdout,
                               proc[r].stderr)
       IN  /\ run' = [run EXCEPT ![r] = res]
           /\ IF res.success
              THEN /\ results' = [results EXCEPT ![r] = InitialResults(Filename)]
                   /\ pc' = [pc EXCEPT ![r] = "parse_asm"]
                   /\ trace' = [trace EXCEPT ![r] = @ \o <<"parse">>]
                   /\ UNCHANGED <<fs, result>>
              ELSE /\ Return(r, FailureResult(res.error), fs, project_dir[r])
                   /\ UNCHANGED results
    /\ UNCHANGED <<service, http, arg, ret,
                   pid, project_dir, child, proc, created, raised,
                   timed_out, read_from>>

\* Lines 413-414.  The deadline expires while the child still runs:
\* wait_for raises TimeoutError and the child is sent SIGKILL.
Timeout(r) ==
    /\ pc[r] = "wait"
    /\ child[r] = "running"
    /\ timed_out' = [timed_out EXCEPT ![r] = TRUE]
    /\ child' = [child EXCEPT ![r] = "killed"]
    /\ pc' = [pc EXCEPT ![r] = "reap"]
    /\ UNCHANGED <<trace, service, http, arg, ret,
                   pid, fs, project_dir, proc, run, results, result,
                   created, raised, read_from>>

\* (mutation: after the kill the tool is launched once more)
Reap_Retry(r) ==
    /\ pc[r] = "reap"
    /\ child' = [child EXCEPT ![r] = "none"]
    /\ pc' = [pc EXCEPT ![r] = "launch"]
    /\ UNCHANGED <<trace, service, http, arg, ret,
                   pid, fs, project_dir, proc, run, results, result,
                   created, raised, timed_out, read_from>>

\* (mutation: the return does not wait for the killed child)
Reap_NoWait(r) ==
    /\ pc[r] = "reap"
    /\ run' = [run EXCEPT ![r] = RunTimedOut]
    /\ Return(r, FailureResult(RunTimedOut.error), fs, project_dir[r])
    /\ UNCHANGED <<service, http, arg, ret,
                   pid, project_dir, child, proc, results, created, raised,
                   timed_out, read_from>>

\* Lines 415-416 and 179-186.  process.wait() returns once the killed
\* child is collected; the timed-out run is returned as a failure.
Reap(r) ==
    /\ pc[r] = "reap"
    /\ child' = [child EXCEPT ![r] = "reaped"]
    /\ run' = [run EXCEPT ![r] = RunTimedOut]
    /\ Return(r, FailureResult(RunTimedOut.error), fs, project_dir[r])
    /\ UNCHANGED <<service, http, arg, ret,
                   pid, project_dir, proc, results, created, raised,
                   timed_out, read_from>>

\* Lines 418-420.  An exception other than the timeout escapes the wait
\* or the decoding: the outer handler returns a failed run and leaves
\* the child as it is.
CommunicateRaise(r) ==
    /\ pc[r] = "wait"
    /\ \E e \in ErrorTexts :
          /\ run' = [run EXCEPT ![r] = RunRaised(e)]
          /\ Return(r, FailureResult(e), fs, project_dir[r])
    /\ raised' = [raised EXCEPT ![r] = "communicate"]
    /\ UNCHANGED <<service, http, arg, ret,
                   pid, project_dir, child, proc, results, created,
                   timed_out, read_from>>

\* (mutation: the text is returned as read, untrimmed)
ReadStripped_NoStrip(files, dir, name, old) ==
    IF HasFile(files, dir, name) THEN ReadText(files[dir][name].text) ELSE old

\* One file read of _parse_results: the stripped text of file `name`
\* when it exists, the field's old value when it does not.
ReadStripped(files, dir, name, old) ==
    IF HasFile(files, dir, name)
    THEN Strip(ReadText(files[dir][name].text))
    ELSE old

\* Whose files a read of `name` takes in.
ReadSource(files, dir, name) ==
    IF HasFile(files, dir, name) THEN {files[dir][name].by} ELSE {}

\* (mutation: the handler of the parse exception starts the results
\* afresh)
ParseRaise_DropsFields(r) ==
    /\ pc[r] \in {"parse_asm", "parse_dec", "parse_meta"}
    /\ \E e \in ErrorTexts :
          LET res == [InitialResults(Filename) EXCEPT
                         !.metadata = DictSet(@, <<"parse_error">>, e)]
          IN  /\ results' = [results EXCEPT ![r] = res]
              /\ Return(r, SuccessResult(res), fs, project_dir[r])
    /\ raised' = [raised EXCEPT ![r] = "parse"]
    /\ UNCHANGED <<service, http, arg, ret,
                   pid, project_dir, child, proc, run, created, timed_out,
                   read_from>>

\* Lines 475-479 and 190-192, 203-206.  An exception inside the parser
\* is noted under parse_error; the results gathered so far are returned
\* as a success.
ParseRaise(r) ==
    /\ pc[r] \in {"parse_asm", "parse_dec", "parse_meta"}
    /\ \E e \in ErrorTexts :
          LET res == [results[r] EXCEPT
                         !.metadata = DictSet(@, <<"parse_error">>, e)]
          IN  /\ results' = [results EXCEPT ![r] = res]
              /\ Return(r, SuccessResult(res), fs, project_dir[r])
    /\ raised' = [raised EXCEPT ![r] = "parse"]
    /\ UNCHANGED <<service, http, arg, ret,
                   pid, project_dir, child, proc, run, created, timed_out,
                   read_from>>

\* Lines 431-439.
ParseAsm(r) ==
    /\ pc[r] = "parse_asm"
    /\ results' = [results EXCEPT ![r].assembly_code =
                      ReadStripped(fs, project_dir[r], AsmFile, @)]
    /\ read_from' = [read_from EXCEPT ![r] =
                        @ \cup ReadSource(fs, project_dir[r], AsmFile)]
    /\ pc' = [pc EXCEPT ![r] = "parse_dec"]
    /\ UNCHANGED <<trace, service, http, arg, ret,
                   pid, fs, project_dir, child, proc, run, result, created,
                   raised, timed_out>>

\* Lines 441-449.
ParseDec(r) ==
    /\ pc[r] = "parse_dec"
    /\ results' = [results EXCEPT ![r].decompiled_code =
                      ReadStripped(fs, project_dir[r], DecFile, @)]
    /\ read_from' = [read_from EXCEPT ![r] =
                        @ \cup ReadSource(fs, project_dir[r], DecFile)]
    /\ pc' = [pc EXCEPT ![r] = "parse_meta"]
    /\ UNCHANGED <<trace, service, http, arg, ret,
                   pid, fs, project_dir, child, proc, run, result, created,
                   raised, timed_out>>

\* Lines 451-479, 190-192 and 203-206.  The metadata file is read and
\* parsed; the results are returned as a success; the directory is
\* removed.
ParseMeta(r) ==
    /\ pc[r] = "parse_meta"
    /\ LET res == [results[r] EXCEPT !.metadata =
                      IF HasFile(fs, project_dir[r], MetaFile)
                      THEN ParseMetadata(
                               ReadText(fs[project_dir[r]][MetaFile].text), @)
                      ELSE @]
       IN  /\ results' = [results EXCEPT ![r] = res]
           /\ Return(r, SuccessResult(res), fs, project_dir[r])
    /\ read_from' = [read_from EXCEPT ![r] =
                        @ \cup ReadSource(fs, project_dir[r], MetaFile)]
    /\ UNCHANGED <<service, http, arg, ret,
                   pid, project_dir, child, proc, run, created, raised,
                   timed_out>>

\* One step of call r, the tool's own end drawn from `runs`.
Step(r, runs) ==
    \/ Begin(r)
    \/ WriteScript(r)
    \/ Launch(r)
    \/ (child[r] = "running" /\ \E t \in runs : ChildExit(r, t))
    \/ CommunicateReturn(r)
    \/ Timeout(r)
    \/ Reap(r)
    \/ CommunicateRaise(r)
    \/ ParseAsm(r)
    \/ ParseDec(r)
    \/ ParseMeta(r)
    \/ ParseRaise(r)

\* Any number of calls up to MaxReq, interleaved at their awaits.
Next == \E r \in Requests : Step(r, ToolRuns)

Spec == Init /\ [][Next]_vars

\* Two calls on one event loop.  The loop runs every callback that is
\* ready, and the tool of the second call ends or meets its deadline:
\* the second call is not kept from a step it can take.  Nothing is
\* asked of the first call: its tool may run for as long as it likes.
\* The runs of the tool here: a clean run that leaves a line of
\* assembly and a line of decompiled text, and a run that fails
\* without a word.
PairRuns ==
    { [returncode |-> 0, stdout |-> <<>>, stderr |-> <<>>,
       files |-> (AsmFile :> <<"ret">>) @@ (DecFile :> <<"int main(void)">>)],
      [returncode |-> 1, stdout |-> <<>>, stderr |-> <<>>,
       files |-> NoFiles] }

NextPair == Step(1, PairRuns) \/ Step(2, PairRuns)

\* Every step of a call moves its place in the code or its child.
SpecPair ==
    Init /\ [][NextPair]_vars /\ WF_<<pc, child>>(Step(2, PairRuns))

\* One call alone, over every run of the tool.
NextRunner == Step(1, AllToolRuns)

SpecRunner == Init /\ [][NextRunner]_vars

\* ------------------------------------------- the classifier on its own
\* Error texts are made of at most MaxErrParts of these parts, a blank
\* between two parts.
ErrParts ==
    { <<"java">>, <<"Java">>, <<"not", " ", "found">>, <<"ghidra">>,
      <<"no", " ", "such", " ", "file">>, <<"timeout">>,
      <<"timed", " ", "out">>, <<"Timed", " ", "Out">>,
      <<"permission", " ", "denied">>, <<"PERMISSION">>, <<"denied">>,
      <<"memory">>, <<"heap">>, <<"unsupported">>,
      <<"unknown", " ", "format">>, <<"unknown">>, <<"Boom">> }

ErrorInputs ==
    { Join(parts, " ") :
        parts \in UNION { [1..k -> ErrParts] : k \in 0..MaxErrParts } }

\* The default context of the signature (line 47) and the one
\* decompile_binary passes (ghidra_service.py line 196).
DefaultContext == <<"Ghidra", " ", "operation">>
Contexts == {DefaultContext, Context}

\* A caller holds an exception and a context.
InitClassifier ==
    /\ Constructed
    /\ NoCalls
    /\ NoRequests
    /\ arg \in [error : ErrorInputs, context : Contexts]
    /\ ret = None

\* The call handle_ghidra_error(error, context) returns.
Classify ==
    /\ ret = None
    /\ ret' = handle_ghidra_error(arg.error, arg.context)
    /\ UNCHANGED <<arg, http, callVars>>

NextClassifier == Classify

SpecClassifier == InitClassifier /\ [][NextClassifier]_vars

\* -------------------------------------------- the validator on its own
\* Heads of files: an entry of the table, one of two four-byte heads
\* the table does not hold (feedfacf, cefaedfe), or a cut of one of
\* these; then up to MaxPad bytes.
OtherHeads == { <<254, 237, 250, 207>>, <<206, 250, 237, 254>> }
PadBytes == {0, 65}
Cuts ==
    UNION { { SubSeq(sig, 1, k) : k \in 0..Len(sig) } :
                sig \in { binary_magics[k] : k \in DOMAIN binary_magics }
                            \cup OtherHeads }
Pads == UNION { [1..k -> PadBytes] : k \in 0..MaxPad }
Leads == { cut \o pad : cut \in Cuts, pad \in Pads }

\* Files with such a head: just the head, a few zero bytes more, or
\* zero bytes up to the ceiling and one beyond it.
FileSizes == {MagicLen, MaxFileSize, MaxFileSize + 1}
Files ==
    { [lead |-> l, size |-> n] :
        l \in Leads, n \in FileSizes \cup (0..(4 + MaxPad)) }

ValidatorInputs ==
    { f \in Files : f.size = Len(f.lead) \/ f.size \in FileSizes }
        \cup {Missing}

InitValidator ==
    /\ Constructed
    /\ NoCalls
    /\ NoRequests
    /\ arg \in [file_path : ValidatorInputs]
    /\ ret = None

\* The call validate_binary_file(file_path) returns.
Validate ==
    /\ ret = None
    /\ ret' = validate_binary_file(arg.file_path)
    /\ UNCHANGED <<arg, http, callVars>>

NextValidator == Validate

SpecValidator == InitValidator /\ [][NextValidator]_vars

\* ----------------------------------------------- the parser's inputs
\* Texts a result file may hold: clean, wrapped in white space, with a
\* carriage return inside, empty.
TextSamples ==
    { <<"mov", LF, "ret">>,
      <<LF, " ", "nop", LF>>,
      <<"push", CRLF, "pop">>,
      <<>> }

KeySamples == { <<"program">>, <<"Address", " ", "Size">>, <<"filename">> }
ValueSamples == { <<"fw">>, <<"x86", ":", "LE">>, <<"v1", " ">> }
PairSamples == [key : KeySamples, value : ValueSamples]
PairLists == UNION { [1..k -> PairSamples] : k \in 0..MaxPairs }

\* The metadata file of a list of pairs: one "key: value" line each.
RECURSIVE MetadataText(_)
MetadataText(pairs) ==
    IF pairs = <<>> THEN <<>>
    ELSE pairs[1].key \o <<":", " ">> \o pairs[1].value \o <<LF>>
             \o MetadataText(Tail(pairs))

ResultFiles == {AsmFile, DecFile, MetaFile}

\* What is written into the workspace: which of the three files, and
\* the two texts and the pairs they hold.
ParserInputs ==
    { w \in [present : SUBSET ResultFiles, asm : TextSamples,
             dec : TextSamples, pairs : PairLists] :
        /\ AsmFile \notin w.present => w.asm = <<>>
        /\ DecFile \notin w.present => w.dec = <<>>
        /\ MetaFile \notin w.present => w.pairs = <<>> }

\* The files of such an input, by name.
WrittenFiles(w) ==
    [n \in w.present |->
        IF n = AsmFile THEN w.asm
        ELSE IF n = DecFile THEN w.dec
        ELSE MetadataText(w.pairs)]

\* The run of the tool that ends well and leaves these files.
WritingRun(w) ==
    [returncode |-> 0, stdout |-> StdoutDone, stderr |-> <<>>,
     files |-> WrittenFiles(w)]

InitParser ==
    /\ Constructed
    /\ NoCalls
    /\ NoRequests
    /\ arg \in ParserInputs
    /\ ret = None

\* One call whose tool leaves the files of arg in the workspace.
NextParser == Step(1, {WritingRun(arg)})

SpecParser == InitParser /\ [][NextParser]_vars

\* ------------------------------------------------- the /decompile route
\* What a client may upload: a file name or none, a size the client
\* reports or none (0), and the file itself.
RouteFiles ==
    { [lead |-> <<>>, size |-> 0],
      [lead |-> binary_magics[1], size |-> 4],
      [lead |-> <<65, 65>>, size |-> MagicLen],
      [lead |-> binary_magics[2], size |-> MaxFileSize + 1] }

Uploads ==
    { [filename |-> n, size |-> z, file |-> f] :
        n \in {<<>>, Filename}, f \in RouteFiles,
        z \in {0, MaxFileSize + 1} \cup { g.size : g \in RouteFiles } }

\* HTTPException(status_code=400, detail=...)
BadRequest(detail) == [status |-> 400, detail |-> detail]

\* The DecompileResponse of lines 94-100.
FailedResponse(upload, res) ==
    [status |-> 200, success |-> FALSE, assembly_code |-> <<>>,
     decompiled_code |-> <<>>,
     metadata |-> [filename |-> upload.filename,
                   file_size |-> upload.file.size],
     error |-> res.error, warnings |-> <<>>]

\* The DecompileResponse of lines 125-131.
InternalError(upload, e) ==
    [status |-> 200, success |-> FALSE, assembly_code |-> <<>>,
     decompiled_code |-> <<>>,
     metadata |-> [filename |-> upload.filename],
     error |-> <<"Internal server error", ":", " ">> \o e,
     warnings |-> <<>>]

\* The keyword arguments of line 108 that BinaryMetadata keeps (a
\* pydantic model drops the keys it has no field for).
MetadataFields ==
    {<<"program">>, <<"language">>, <<"compiler">>, <<"architecture">>,
     <<"address_size">>}

\* The keys of the parsed metadata that repeat a keyword of lines
\* 105-107: the call of line 104 raises TypeError on them.
RepeatedKeywords == {<<"file_size">>, <<"analysis_time">>}

\* The DecompileResponse of lines 103-119.
SucceededResponse(upload, res, validation) ==
    [status |-> 200, success |-> TRUE,
     assembly_code |-> res.assembly_code,
     decompiled_code |-> res.decompiled_code,
     metadata |-> [filename |-> upload.filename,
                   file_size |-> upload.file.size,
                   parsed |-> [k \in (DOMAIN res.metadata)
                                       \cap MetadataFields |->
                                  res.metadata[k]]],
     error |-> None,
     warnings |-> IF Contains(validation.message, <<"caution">>)
                  THEN <<validation.message>> ELSE <<>>]

\* (mutation: the reported size is not looked at)
RouteReceive_SizeUnchecked(r) ==
    /\ http[r].stage = "none"
    /\ \E u \in Uploads :
          http' = [http EXCEPT ![r] =
              IF u.filename = <<>>
              THEN [@ EXCEPT !.stage = "responded", !.upload = u,
                       !.response = BadRequest(<<"Filename is required">>)]
              ELSE [@ EXCEPT !.stage = "reading", !.upload = u,
                       !.temp = TRUE]]
    /\ UNCHANGED <<arg, ret, callVars>>

\* Lines 65-79.  A request arrives: without a file name, or with a
\* reported size over the ceiling, it is refused; else the temporary
\* file is created and the upload is awaited.
RouteReceive(r) ==
    /\ http[r].stage = "none"
    /\ \E u \in Uploads :
          http' = [http EXCEPT ![r] =
              IF u.filename = <<>>
              THEN [@ EXCEPT !.stage = "responded", !.upload = u,
                       !.response = BadRequest(<<"Filename is required">>)]
              ELSE IF u.size # 0 /\ u.size > MaxFileSize
              THEN [@ EXCEPT !.stage = "responded", !.upload = u,
                       !.response = BadRequest(FileTooLargeText)]
              ELSE [@ EXCEPT !.stage = "reading", !.upload = u,
                       !.temp = TRUE]]
    /\ UNCHANGED <<arg, ret, callVars>>

\* (mutation: the handler goes on to decompile whatever the validator
\* said)
RouteValidate_Ignored(r) ==
    /\ http[r].stage = "reading"
    /\ http' = [http EXCEPT ![r] =
          [@ EXCEPT !.stage = "decompiling",
                    !.validation =
                        validate_binary_file(http[r].upload.file)]]
    /\ UNCHANGED <<arg, ret, callVars>>

\* (mutation: the HTTPException of an invalid file leaves the handler
\* without the finally clause)
RouteValidate_LeavesFile(r) ==
    /\ http[r].stage = "reading"
    /\ LET v == validate_binary_file(http[r].upload.file)
       IN  http' = [http EXCEPT ![r] =
               IF ~v.is_valid
               THEN [@ EXCEPT !.stage = "responded", !.validation = v,
                        !.response = BadRequest(
                            <<"Invalid binary file", ":", " ">>
                                \o v.message)]
               ELSE [@ EXCEPT !.stage = "decompiling", !.validation = v]]
    /\ UNCHANGED <<arg, ret, callVars>>

\* Lines 79-90 and 121-122, 132-138.  The upload is read and written
\* to the temporary file, the file is validated; an invalid file ends
\* the request with status 400 and the temporary file is removed, a
\* valid one is handed to GhidraDecompiler.decompile_binary.
RouteValidate(r) ==
    /\ http[r].stage = "reading"
    /\ LET v == validate_binary_file(http[r].upload.file)
       IN  http' = [http EXCEPT ![r] =
               IF ~v.is_valid
               THEN [@ EXCEPT !.stage = "responded", !.validation = v,
                        !.temp = FALSE,
                        !.response = BadRequest(
                            <<"Invalid binary file", ":", " ">>
                                \o v.message)]
               ELSE [@ EXCEPT !.stage = "decompiling", !.validation = v]]
    /\ UNCHANGED <<arg, ret, callVars>>

\* Lines 79 and 123-138.  Reading the upload raises: the handler
\* answers with a failed DecompileResponse and removes the temporary
\* file.
RouteReadRaise(r) ==
    /\ http[r].stage = "reading"
    /\ \E e \in ErrorTexts :
          http' = [http EXCEPT ![r] =
              [@ EXCEPT !.stage = "responded", !.temp = FALSE,
                        !.response = InternalError(http[r].upload, e)]]
    /\ UNCHANGED <<arg, ret, callVars>>

\* Lines 90-138.  decompile_binary of the service has returned: the
\* response is built from its result and the temporary file is
\* removed.
RouteRespond(r) ==
    /\ http[r].stage = "decompiling"
    /\ pc[r] = "done"
    /\ http' = [http EXCEPT ![r] =
          [@ EXCEPT !.stage = "responded", !.temp = FALSE,
                    !.response =
                        IF ~result[r].success
                        THEN FailedResponse(http[r].upload, result[r])
                        ELSE IF (DOMAIN result[r].metadata)
                                    \cap RepeatedKeywords # {}
                        THEN InternalError(http[r].upload,
                                 <<"got multiple values for keyword argument">>)
                        ELSE SucceededResponse(http[r].upload, result[r],
                                               http[r].validation)]]
    /\ UNCHANGED <<arg, ret, callVars>>

\* One request to /decompile; the service's call runs between the
\* validation and the response.
NextRoute ==
    \/ RouteReceive(1)
    \/ RouteValidate(1)
    \/ RouteReadRaise(1)
    \/ (http[1].stage = "decompiling" /\ Step(1, ToolRuns))
    \/ RouteRespond(1)

SpecRoute == Init /\ [][NextRoute]_vars

\* ------------------------------------------------ the deadline of a run
\* asyncio.wait_for(process.communicate(), timeout=300)
WaitForTimeout == 300

\* What a caller may want for a deadline, in seconds: nothing (0), less
\* than the default, the default, more than it.  decompile_binary(binary_path, filename)
\* has no parameter that takes it, nor has the /decompile route.
TimeoutWishes == {0, 60, 300, 600}

\* The deadline wait_for is given in a call whose caller wants `wish`.
Deadline(wish) == WaitForTimeout

InitDeadline ==
    /\ Constructed
    /\ NoCalls
    /\ NoRequests
    /\ arg \in [timeout : TimeoutWishes]
    /\ ret = None

\* One call of a caller with that wish.
NextDeadline == Step(1, ToolRuns)

SpecDeadline == InitDeadline /\ [][NextDeadline]_vars

\* ------------------------------------------- the stderr filter on its own
\* Lines of stderr beside those of the tool runs: a genuine line and a
\* benign line wrapped in blanks, a benign line in another letter case.
FilterLines ==
    StderrLines
    \cup { <<" ", "ERROR", ":", " ", "Boom", " ">>,
            <<"\t", "INFO", ":", " ", "started", " ">>,
            <<"info", ":", " ", "Started">> }

InitFilter ==
    /\ Constructed
    /\ NoCalls
    /\ NoRequests
    /\ arg \in [stderr_str :
                 { Join(ls, LF) :
                     ls \in UNION { [1..n -> FilterLines] :
                                       n \in 0..MaxStderrLines } }]
    /\ ret = None

\* _filter_stderr_output applied to the raw text, then to its own
\* output: `first` keeps what the first pass returned.
Filter ==
    /\ \/ /\ ret = None
          /\ ret' = [passes |-> 1,
                      first |-> _filter_stderr_output(arg.stderr_str),
                      text |-> _filter_stderr_output(arg.stderr_str)]
       \/ /\ ret # None
          /\ ret.passes = 1
          /\ ret' = [ret EXCEPT !.passes = 2,
                                 !.text = _filter_stderr_output(ret.text)]
    /\ UNCHANGED <<arg, http, callVars>>

SpecFilter == InitFilter /\ [][Filter]_vars

\* ------------------------------------------------------ the Java home
\* The list of lines 52-59.
java_paths ==
    << "/usr/local/openjdk-17",
       "/usr/lib/jvm/java-17-openjdk-amd64",
       "/usr/lib/jvm/java-17-openjdk",
       "/usr/lib/jvm/default-java",
       "/opt/java/openjdk",
       "/System/Library/Frameworks/JavaVM.framework/Home" >>

\* A home outside the list, for the variable and for the java command.
OtherHome == "/opt/jdk-21"

\* The hosts the server may start on: JAVA_HOME unset, set or set to
\* the empty string; any of the listed directories and the other home
\* there or not; no java command on the PATH, or one that reports the
\* other home.
Hosts ==
    [JAVA_HOME : { [set |-> FALSE, value |-> ""],
                   [set |-> TRUE, value |-> ""],
                   [set |-> TRUE, value |-> OtherHome] },
     existing : SUBSET ({ java_paths[i] : i \in DOMAIN java_paths }
                            \cup {OtherHome}),
     java : {"absent", "present"}]

\* subprocess.run: the call is refused with ValueError when it asks
\* for capture_output and names stdout or stderr as well; the command
\* is not run then.  Else it raises when there is no such command and
\* returns, line by line, what java -XshowSettings:properties -version
\* prints when there is.
subprocess_run(host, capture_output, stderr) ==
    IF capture_output /\ stderr
    THEN [raises |-> "ValueError", stdout |-> <<>>]
    ELSE IF host.java = "absent"
    THEN [raises |-> "FileNotFoundError", stdout |-> <<>>]
    ELSE [raises |-> "",
          stdout |-> << <<"Property", " ", "settings", ":">>,
                        <<" ", "java.home", " ", "=", " ", OtherHome>>,
                        <<" ", "java.version", " ", "=", " ", "21">>,
                        <<"openjdk", " ", "version", " ", "21">> >>]

\* Lines 66-70: the first line that names java.home and whose text
\* after the last '=' is a path that exists, if the command ran.
RECURSIVE ReportedHome(_, _)
ReportedHome(host, lines) ==
    IF lines = <<>> THEN ""
    ELSE LET line == lines[1]
             pieces == Split(line, "=")
             java_home == Strip(pieces[Len(pieces)])
         IN  IF /\ Contains(line, <<"java.home">>)
                /\ Len(java_home) = 1
                /\ java_home[1] \in host.existing
             THEN java_home[1]
             ELSE ReportedHome(host, Tail(lines))

\* Lines 75-77 and 81: the first listed path that exists, or "" .
RECURSIVE FirstExisting(_, _)
FirstExisting(host, paths) ==
    IF paths = <<>> THEN ""
    ELSE IF paths[1] \in host.existing THEN paths[1]
    ELSE FirstExisting(host, Tail(paths))

\* Lines 44-81.  The java command is asked first - with
\* capture_output=True and stderr=subprocess.STDOUT together (lines
\* 64-65) - and any exception of that is passed over; then the list;
\* then the empty string.
_detect_java_home(host) ==
    LET completed == subprocess_run(host, TRUE, TRUE)
        reported == IF completed.raises = ""
                    THEN ReportedHome(host, completed.stdout) ELSE ""
    IN  IF reported # "" THEN reported
        ELSE FirstExisting(host, java_paths)

InitJava ==
    /\ Constructed
    /\ NoCalls
    /\ NoRequests
    /\ arg \in [host : Hosts]
    /\ ret = None

\* Line 31 on that host: os.getenv('JAVA_HOME', default), the default
\* being what _detect_java_home returns.
SetJavaHome ==
    /\ ret = None
    /\ ret' = [java_home |->
                  IF arg.host.JAVA_HOME.set
                  THEN arg.host.JAVA_HOME.value
                  ELSE _detect_java_home(arg.host)]
    /\ UNCHANGED <<arg, http, callVars>>

SpecJava == InitJava /\ [][SetJavaHome]_vars

\* --------------------------------------------------- the server's start
\* (mutation: __init__ does not look for the launcher)
Construct_Unchecked ==
    /\ service.state = "unbuilt"
    /\ fs' = Mkdir(fs, StagingRoot)
    /\ service' = [service EXCEPT !.state = "ready"]
    /\ UNCHANGED <<pid, pc, project_dir, child, proc, run, results,
                   result, created, raised, timed_out, read_from, trace,
                   http, arg, ret>>

\* Lines 29-42, run by line 34 of code_routes.py when the application
\* imports its routes: RuntimeError unless analyzeHeadless exists.
Construct ==
    /\ service.state = "unbuilt"
    /\ fs' = Mkdir(fs, StagingRoot)
    /\ service' = [service EXCEPT !.state =
                       IF service.launcher THEN "ready" ELSE "failed"]
    /\ UNCHANGED <<pid, pc, project_dir, child, proc, run, results,
                   result, created, raised, timed_out, read_from, trace,
                   http, arg, ret>>

\* The server before its start, on a host with or without the launcher.
InitStartup ==
    /\ service \in [state : {"unbuilt"}, launcher : BOOLEAN]
    /\ NoCalls
    /\ NoRequests
    /\ arg = None
    /\ ret = None

\* Requests are served once the import has succeeded.
NextStartup ==
    \/ Construct
    \/ (service.state = "ready" /\ NextRoute)

SpecStartup == InitStartup /\ [][NextStartup]_vars

\* ------------------------------------------- the metadata loop on its own
\* Lines a metadata file may hold: the two of the tool's usual output,
\* a key of two words, a line without a colon, a key and a value
\* wrapped in blanks, an empty line, a second line for the key program
\* and one for the key filename.
MetaLineSamples ==
    { <<"Program", ":", " ", "foo">>,
      <<"Language", ":", " ", "x86", ":", "LE", ":", "32", ":", "default">>,
      <<"Address", " ", "Size", ":", " ", "64">>,
      <<"no", " ", "colon", " ", "here">>,
      <<" ", "Compiler", " ", ":", " ", "gcc", " ">>,
      <<>>,
      <<"PROGRAM", " ", ":", " ", "baz">>,
      <<"FileName", ":", " ", "other.bin">> }

MetaLineLists == UNION { [1..k -> MetaLineSamples] : k \in 0..MaxMetaLines }

InitMetadata ==
    /\ Constructed
    /\ NoCalls
    /\ NoRequests
    /\ arg \in [lines : MetaLineLists]
    /\ ret = None

\* Lines 424-428 and 455-461 on a metadata file of these lines.
ReadMetadata ==
    /\ ret = None
    /\ ret' = ParseMetadata(ReadText(Join(arg.lines, LF)),
                            InitialResults(Filename).metadata)
    /\ UNCHANGED <<arg, http, callVars>>

NextMetadata == ReadMetadata

SpecMetadata == InitMetadata /\ [][NextMetadata]_vars

\* ================================================================ claims
\* A call that has not returned yet holds its workspace.
InFlight(r) == pc[r] \notin {"idle", "done"}

\* Call r returns in this step.
Returns(r) == pc[r] # "done" /\ pc'[r] = "done"

\* The child of call r exited before the deadline and communicate()
\* returned: run[r] is the classification of proc[r].
Completed(r) ==
    /\ proc[r] # None
    /\ run[r] # None
    /\ ~timed_out[r]
    /\ raised[r] \notin {"launch", "communicate"}

\* C1 (as claimed): every call that gets past mkdir, whichever way it
\* ends, has created exactly one workspace directory by the time it
\* returns, and that directory does not exist when it returns.
C1_OneWorkspacePerCall ==
    [][\A r \in Requests :
          (Returns(r) /\ raised'[r] # "mkdir")
              => (created'[r] = 1 /\ ~Exists(fs', project_dir'[r]))]_vars

\* C2 (as claimed): two calls in flight at the same time never hold the
\* same workspace path.
C2_DisjointWorkspaces ==
    \A r, q \in Requests :
        (r # q /\ InFlight(r) /\ InFlight(q))
            => project_dir[r] # project_dir[q]

\* C3 (as claimed): a call parses only files its own tool run wrote, and
\* the cleanup of a returning call never removes the directory another
\* call in flight is working in.
C3_NoCrossRequestEffects ==
    [][\A r \in Requests :
          /\ read_from'[r] \subseteq {r}
          /\ (Returns(r) /\ Exists(fs, project_dir'[r])
                  /\ ~Exists(fs', project_dir'[r]))
                 => \A q \in Requests \ {r} :
                        ~(InFlight(q) /\ project_dir[q] = project_dir'[r])]_vars

\* C4: when the child exits before the deadline, the reported success
\* flag is true exactly when the exit code is 0, or the filtered stderr
\* is empty and stdout holds the completion marker.
C4_SuccessPredicate ==
    \A r \in Requests :
        Completed(r) =>
            (run[r].success <=>
                (\/ proc[r].returncode = 0
                 \/ (run[r].error = <<>> /\ Contains(proc[r].stdout, Marker))))

\* C4 witness: a completed run with a nonzero exit, nothing left of its
\* stderr after filtering and the marker in stdout, reported successful.
C4_Witness ==
    \E r \in Requests :
        /\ Completed(r)
        /\ proc[r].returncode # 0
        /\ proc[r].stderr # <<>>
        /\ run[r].error = <<>>
        /\ Contains(proc[r].stdout, Marker)
        /\ run[r].success

\* The stderr lines that are known to be harmless: runtime banners,
\* headless and X11 warnings, INFO lines and blank lines.
BenignLines == BannerLines \cup HeadlessLines \cup OtherLines

OnlyBenign(stderr_str) ==
    LET lines == Split(stderr_str, LF)
    IN  \A i \in DOMAIN lines : lines[i] \in BenignLines

\* C5 (as claimed): a run whose filtered stderr still holds real text is
\* a failure; a nonzero exit with only benign stderr lines and the marker
\* in stdout is a success.
C5_RealStderrFails ==
    \A r \in Requests :
        Completed(r) =>
            /\ (run[r].error # <<>> => ~run[r].success)
            /\ (proc[r].returncode # 0 /\ OnlyBenign(proc[r].stderr)
                    /\ Contains(proc[r].stdout, Marker)) => run[r].success

\* C5 (amended): a run with a nonzero exit code whose filtered stderr
\* still holds real text is a failure; a nonzero exit with only benign
\* stderr lines and the marker in stdout is a success.
C5_RealStderrFailsOnNonzeroExit ==
    \A r \in Requests :
        Completed(r) =>
            /\ (proc[r].returncode # 0 /\ run[r].error # <<>>)
                   => ~run[r].success
            /\ (proc[r].returncode # 0 /\ OnlyBenign(proc[r].stderr)
                    /\ Contains(proc[r].stdout, Marker)) => run[r].success

\* C5 witness: a nonzero exit with the marker in stdout and real text
\* left in the filtered stderr, reported as a failure.
C5_Witness ==
    \E r \in Requests :
        /\ Completed(r)
        /\ proc[r].returncode # 0
        /\ Contains(proc[r].stdout, Marker)
        /\ run[r].error # <<>>
        /\ ~run[r].success

\* stderr made of one runtime banner line and one headless warning line,
\* with or without a final line feed.
BannerAndHeadless(stderr_str) ==
    \E b \in BannerLines, w \in HeadlessLines :
        stderr_str \in {Join(<<b, w>>, LF), Join(<<b, w, <<>>>>, LF)}

\* C6: stderr of only a version banner and a headless-mode warning, with
\* the completion marker in stdout, is a success for every exit code.
C6_BannerAndHeadlessTolerated ==
    \A r \in Requests :
        (Completed(r) /\ BannerAndHeadless(proc[r].stderr)
             /\ Contains(proc[r].stdout, Marker))
            => run[r].success

\* C6 witness: such a run with a nonzero exit code, reported successful.
C6_Witness ==
    \E r \in Requests :
        /\ Completed(r)
        /\ BannerAndHeadless(proc[r].stderr)
        /\ Contains(proc[r].stdout, Marker)
        /\ proc[r].returncode # 0
        /\ run[r].success

\* C7: once the deadline has expired on a running child, the child is
\* killed; when the run has returned the child has been collected, the
\* run is a failure and its error text says it timed out.
C7_TimeoutKillsAndReaps ==
    \A r \in Requests :
        timed_out[r] =>
            /\ child[r] \in {"killed", "reaped"}
            /\ run[r] # None =>
                   /\ child[r] = "reaped"
                   /\ ~run[r].success
                   /\ Contains(Lower(run[r].error), <<"timed", " ", "out">>)

\* C7 witness: a call whose run timed out has returned.
C7_Witness ==
    \E r \in Requests :
        timed_out[r] /\ run[r] # None /\ pc[r] = "done"

\* C8 (as claimed): a call whose tool run timed out returns success false
\* with the classifier's timeout category, message and suggestion, and
\* its workspace does not exist when it returns.
C8_TimeoutIsClassified ==
    [][\A r \in Requests :
          (Returns(r) /\ timed_out'[r]) =>
              /\ result'[r].success = FALSE
              /\ result'[r].error = AnalysisTimeout.error
              /\ "message" \in DOMAIN result'[r]
              /\ result'[r].message = AnalysisTimeout.message
              /\ "suggestion" \in DOMAIN result'[r]
              /\ result'[r].suggestion = AnalysisTimeout.suggestion
              /\ ~Exists(fs', project_dir'[r])]_vars

\* C9 (as claimed): when the run reports failure, the call returns the
\* category the classifier gives the failure text as its error.
C9_RunFailureIsClassified ==
    \A r \in Requests :
        (pc[r] = "done" /\ run[r] # None /\ ~run[r].success) =>
            /\ result[r].success = FALSE
            /\ result[r].error = handle_ghidra_error(run[r].error, Context).error

\* C10 (as claimed): every returned outcome with success false carries an
\* error category, a message and a suggestion.
C10_FailureCarriesAllThree ==
    \A r \in Requests :
        (pc[r] = "done" /\ result[r].success = FALSE) =>
            {"error", "message", "suggestion"} \subseteq DOMAIN result[r]

\* The call of r has returned a dict, as opposed to raising.
Returned(r) ==
    /\ pc[r] = "done"
    /\ result[r] # None
    /\ {"success", "assembly_code", "decompiled_code", "metadata"}
           \subseteq DOMAIN result[r]

\* The outcome of r is the empty failure.
EmptyFailure(r) ==
    /\ result[r].success = FALSE
    /\ result[r].assembly_code = <<>>
    /\ result[r].decompiled_code = <<>>
    /\ result[r].metadata = EmptyDict

\* C11 (as claimed): whichever step raised - workspace creation, script
\* writing, the tool run or result parsing - the call returns the empty
\* failure: success false, no assembly, no decompiled code, no metadata.
C11_EveryFaultIsAnEmptyFailure ==
    \A r \in Requests :
        (pc[r] = "done" /\ (raised[r] # "none" \/ timed_out[r]))
            => (Returned(r) /\ EmptyFailure(r))

\* C11 (amended): no exception escapes decompile_binary.  One raised by
\* workspace creation, script writing or the tool run (its deadline
\* included) makes the call return the empty failure; one raised while
\* the results are parsed is noted under the metadata key parse_error
\* and the call returns success true with what was parsed so far.
C11_NoFaultEscapes ==
    \A r \in Requests :
        pc[r] = "done" =>
            /\ Returned(r)
            /\ (raised[r] \in {"mkdir", "script", "launch", "communicate"}
                    \/ timed_out[r])
                  => EmptyFailure(r)
            /\ raised[r] = "parse" =>
                  /\ result[r].success = TRUE
                  /\ <<"parse_error">> \in DOMAIN result[r].metadata

\* C11 witness: one call ended by an exception in script writing and
\* another by an exception in the parser.
C11_Witness ==
    \E r, q \in Requests :
        /\ pc[r] = "done" /\ raised[r] = "script"
        /\ pc[q] = "done" /\ raised[q] = "parse"

\* C12: when the tool run succeeded, the call returns success true and
\* its assembly_code, decompiled_code and metadata are the values
\* _parse_results produced, unchanged.
C12_SuccessReturnsParsedValues ==
    \A r \in Requests :
        (pc[r] = "done" /\ run[r] # None /\ run[r].success) =>
            /\ Returned(r)
            /\ result[r].success = TRUE
            /\ results[r] # None
            /\ result[r].assembly_code = results[r].assembly_code
            /\ result[r].decompiled_code = results[r].decompiled_code
            /\ result[r].metadata = results[r].metadata

\* C12 witness: a successful run whose parse found assembly text and
\* metadata of the tool.
C12_Witness ==
    \E r \in Requests :
        /\ pc[r] = "done" /\ run[r] # None /\ run[r].success
        /\ raised[r] = "none"
        /\ result[r].assembly_code # <<>>
        /\ Cardinality(DOMAIN result[r].metadata) > 1

\* The text holds the needle, letter case ignored.
Mentions(text, needle) == Contains(Lower(text), needle)

\* The pattern of the i-th specific category, in the order of the
\* claim: missing runtime, missing tool, timeout, permission denied,
\* out of memory, unsupported format.
Matches(i, text) ==
    CASE i = 1 -> Mentions(text, <<"java">>)
                  /\ Mentions(text, <<"not", " ", "found">>)
      [] i = 2 -> Mentions(text, <<"ghidra">>)
                  /\ (Mentions(text, <<"not", " ", "found">>)
                      \/ Mentions(text, <<"no", " ", "such", " ", "file">>))
      [] i = 3 -> Mentions(text, <<"timeout">>)
                  \/ Mentions(text, <<"timed", " ", "out">>)
      [] i = 4 -> Mentions(text, <<"permission">>)
                  \/ Mentions(text, <<"denied">>)
      [] i = 5 -> Mentions(text, <<"memory">>) \/ Mentions(text, <<"heap">>)
      [] i = 6 -> Mentions(text, <<"unsupported">>)
                  \/ Mentions(text, <<"unknown", " ", "format">>)

\* The error titles of the six specific categories, in that order.
SpecificTitles ==
    << <<"Java", " ", "runtime", " ", "not", " ", "found">>,
       <<"Ghidra", " ", "installation", " ", "not", " ", "found">>,
       <<"Analysis", " ", "timeout">>,
       <<"Permission", " ", "denied">>,
       <<"Insufficient", " ", "memory">>,
       <<"Unsupported", " ", "binary", " ", "format">> >>

\* The error title of the generic category.
GenericTitle(context) == context \o <<" ", "failed">>

NoPatternMatches(text) == \A i \in 1..6 : ~Matches(i, text)

C14_PhraseDecidesCategory ==
    ret # None =>
        /\ Mentions(arg.error, <<"permission", " ", "denied">>)
              => ret.error = SpecificTitles[4]
        /\ Mentions(arg.error, <<"timed", " ", "out">>)
              => ret.error = SpecificTitles[3]
        /\ NoPatternMatches(arg.error)
              => /\ ret.error = GenericTitle(arg.context)
                 /\ Contains(ret.message, arg.error)

\* C14 (amended): a text containing "permission denied" that matches no
\* pattern of an earlier category (missing runtime, missing tool,
\* timeout) is given the permission category; a text containing "timed
\* out" that matches neither of the two patterns before timeout is
\* given the timeout category; a text matching no pattern is given the
\* generic category with the text verbatim in its message.
C14_PhraseDecidesUnlessEarlierMatches ==
    ret # None =>
        /\ (Mentions(arg.error, <<"permission", " ", "denied">>)
            /\ \A j \in 1..3 : ~Matches(j, arg.error))
              => ret.error = SpecificTitles[4]
        /\ (Mentions(arg.error, <<"timed", " ", "out">>)
            /\ \A j \in 1..2 : ~Matches(j, arg.error))
              => ret.error = SpecificTitles[3]
        /\ NoPatternMatches(arg.error)
              => /\ ret.error = GenericTitle(arg.context)
                 /\ Contains(ret.message, arg.error)

\* C14 witness: a text with "permission denied" in capitals and no
\* earlier pattern has been given the permission category.
C14_Witness ==
    /\ ret # None
    /\ Mentions(arg.error, <<"permission", " ", "denied">>)
    /\ Lower(arg.error) # arg.error
    /\ \A j \in 1..3 : ~Matches(j, arg.error)
    /\ ret.error = SpecificTitles[4]

\* C15: the classifier returns, for every error, a dict with success
\* false whose error title is one of the seven categories', and the
\* title is the generic one exactly when no specific pattern matches.
C15_ClassifierIsTotal ==
    ret # None =>
        /\ DOMAIN ret = {"success", "error", "message", "suggestion"}
        /\ ret.success = FALSE
        /\ \/ \E i \in 1..6 : ret.error = SpecificTitles[i]
           \/ ret.error = GenericTitle(arg.context)
        /\ (ret.error = GenericTitle(arg.context))
              <=> NoPatternMatches(arg.error)

\* C15 witness: a text that matches nothing has been classified as
\* generic.
C15_Witness ==
    /\ ret # None
    /\ arg.error # <<>>
    /\ NoPatternMatches(arg.error)
    /\ ret.error = GenericTitle(arg.context)

\* The signatures of the executable formats: ELF, PE/DOS, Mach-O 32-bit
\* and 64-bit as stored most significant byte first (feedface,
\* feedfacf) and byte-reversed (cefaedfe, cffaedfe), universal binary.
ELF == <<127, 69, 76, 70>>
MZ == <<77, 90>>
MachO32 == <<254, 237, 250, 206>>
MachO64 == <<254, 237, 250, 207>>
MachO32Reversed == <<206, 250, 237, 254>>
MachO64Reversed == <<207, 250, 237, 254>>
Universal == <<202, 254, 186, 190>>
FormatSignatures ==
    {ELF, MZ, MachO32, MachO64, MachO32Reversed, MachO64Reversed, Universal}

\* The file exists, holds something and is not over the ceiling.
Examined(file) ==
    file # Missing /\ file.size > 0 /\ file.size <= MaxFileSize

\* The signatures validate_binary_file looks for.
Recognised(file) ==
    \E sig \in {ELF, MZ, <<254, 237, 250>>, MachO64Reversed, Universal} :
        StartsWith(ReadMagic(file), sig)

C17_ValidIffFormatSignature ==
    (ret # None /\ Examined(arg.file_path)) =>
        ((ret.is_valid /\ ret.message = <<"Valid binary file">>)
            <=> \E sig \in FormatSignatures :
                   StartsWith(ReadMagic(arg.file_path), sig))

\* C18: a request whose file the validator refused has been answered
\* with an error, and the service's decompile_binary has not begun for
\* it: no workspace made, no script written, no tool process started.
C18_InvalidFileShortCircuits ==
    \A r \in Requests :
        (http[r].validation # None /\ ~http[r].validation.is_valid) =>
            /\ http[r].stage = "responded"
            /\ http[r].response.status = 400
            /\ pc[r] = "idle"
            /\ project_dir[r] = <<>>
            /\ created[r] = 0
            /\ child[r] = "none"
            /\ ~Exists(fs, ProjectDir(pid))

\* C18 witness: an upload of unreported size that the validator found
\* too large has been refused.
C18_Witness ==
    \E r \in Requests :
        /\ http[r].stage = "responded"
        /\ http[r].validation # None
        /\ ~http[r].validation.is_valid
        /\ http[r].upload.file.size > MaxFileSize

\* Call 1 has parsed the files its tool wrote and the parser raised
\* nothing.
Parsed ==
    /\ pc[1] = "done"
    /\ run[1] # None /\ run[1].success
    /\ raised[1] = "none"

AllWritten == arg.present = ResultFiles

\* The written pairs, as a condition on a mapping.
HoldsThePairs(metadata, pairs) ==
    \A i \in DOMAIN pairs :
        /\ pairs[i].key \in DOMAIN metadata
        /\ metadata[pairs[i].key] = pairs[i].value

Keys(pairs) == { pairs[i].key : i \in DOMAIN pairs }

\* C19 (as claimed): whatever the two texts and the pairs written, the
\* parser returns the two texts as written and a metadata mapping that
\* equals the written pairs.
C19_RoundTrip ==
    (Parsed /\ AllWritten) =>
        /\ results[1].assembly_code = arg.asm
        /\ results[1].decompiled_code = arg.dec
        /\ DOMAIN results[1].metadata = Keys(arg.pairs)
        /\ HoldsThePairs(results[1].metadata, arg.pairs)

\* A text the read and strip() leave as it is: no white space at
\* either end, no carriage return, no undecodable byte.
CleanText(t) ==
    /\ \A i \in DOMAIN t : t[i] \notin {CR, CRLF, BadByte}
    /\ t # <<>> => (~IsSpace(t[1]) /\ ~IsSpace(t[Len(t)]))

\* A key the parser leaves as it is: lower case, no blank, no colon,
\* one line.
CleanKey(k) ==
    /\ \A i \in DOMAIN k :
          k[i] \notin {":", " ", "\t", LF, CR, CRLF, BadByte}
    /\ Lower(k) = k

\* A value the parser leaves as it is: one line, no white space at
\* either end.
CleanValue(v) ==
    /\ \A i \in DOMAIN v : v[i] \notin {LF, CR, CRLF, BadByte}
    /\ v # <<>> => (~IsSpace(v[1]) /\ ~IsSpace(v[Len(v)]))

CleanPairs(pairs) ==
    /\ \A i \in DOMAIN pairs :
          CleanKey(pairs[i].key) /\ CleanValue(pairs[i].value)
    /\ \A i, j \in DOMAIN pairs :
          pairs[i].key = pairs[j].key => i = j

\* C19 (amended): a text written without white space at its ends and
\* without carriage returns is returned as written; pairs written with
\* distinct keys that are lower case and hold no blank or colon, and
\* with one-line values without white space at their ends, are
\* returned as written, in a mapping that holds besides them only the
\* filename entry of the call (which a written filename key replaces).
C19_RoundTripOfCleanInputs ==
    (Parsed /\ AllWritten) =>
        /\ CleanText(arg.asm) => results[1].assembly_code = arg.asm
        /\ CleanText(arg.dec) => results[1].decompiled_code = arg.dec
        /\ CleanPairs(arg.pairs) =>
              /\ DOMAIN results[1].metadata
                    = Keys(arg.pairs) \cup {<<"filename">>}
              /\ HoldsThePairs(results[1].metadata, arg.pairs)
              /\ <<"filename">> \notin Keys(arg.pairs)
                    => results[1].metadata[<<"filename">>] = Filename

\* C19 witness: two clean texts and two clean pairs, one with a colon
\* in its value, have been written and parsed.
C19_Witness ==
    /\ Parsed /\ AllWritten
    /\ CleanText(arg.asm) /\ arg.asm # <<>>
    /\ CleanText(arg.dec) /\ arg.dec # <<>>
    /\ CleanPairs(arg.pairs) /\ Len(arg.pairs) = 2
    /\ \E i \in DOMAIN arg.pairs : \E k \in DOMAIN arg.pairs[i].value :
          arg.pairs[i].value[k] = ":"

\* r is t without the white space at its two ends.
Trimmed(r, t) ==
    /\ r # <<>> => (~IsSpace(r[1]) /\ ~IsSpace(r[Len(r)]))
    /\ \E i \in 1..(Len(t) + 1) : \E j \in 0..Len(t) :
          /\ r = SubSeq(t, i, j)
          /\ \A k \in 1..(i - 1) : IsSpace(t[k])
          /\ \A k \in (j + 1)..Len(t) : IsSpace(t[k])

\* C20: whichever of the three files are there, no parse ends on a
\* missing-file error; an absent assembly or decompiled file leaves the
\* field empty, an absent metadata file adds no key, and the text read
\* from a file that is there is returned without the white space at
\* its ends.
C20_AbsentFilesAreNotFatal ==
    /\ (pc[1] = "done" /\ raised[1] = "parse")
          => results[1].metadata[<<"parse_error">>] # ENoEntry
    /\ Parsed =>
          /\ IF AsmFile \in arg.present
             THEN Trimmed(results[1].assembly_code, ReadText(arg.asm))
             ELSE results[1].assembly_code = <<>>
          /\ IF DecFile \in arg.present
             THEN Trimmed(results[1].decompiled_code, ReadText(arg.dec))
             ELSE results[1].decompiled_code = <<>>
          /\ MetaFile \notin arg.present
                => DOMAIN results[1].metadata = {<<"filename">>}

\* C20 witness: only the decompiled file was there, its text wrapped in
\* white space, and the parse has ended.
C20_Witness ==
    /\ Parsed
    /\ arg.present = {DecFile}
    /\ arg.dec # <<>>
    /\ IsSpace(arg.dec[1])
    /\ results[1].decompiled_code # <<>>

\* The key the parser makes of the key text of a written line.
NormalKey(k) == Replace(Lower(Strip(k)), " ", "_")

\* The outcome of call 1 says of itself that it is empty: the dict has
\* an entry beside the four of every outcome, or its metadata has one
\* that is neither the seeded filename nor the key of a written line.
CarriesNote ==
    \/ DOMAIN result[1]
          # {"success", "assembly_code", "decompiled_code", "metadata"}
    \/ \E k \in DOMAIN result[1].metadata :
          /\ k # <<"filename">>
          /\ \A i \in DOMAIN arg.pairs : k # NormalKey(arg.pairs[i].key)

\* C21 (as claimed): a successful run that left neither assembly nor
\* decompiled text is returned with success true, and the outcome
\* carries a note that says the result is empty.
C21_EmptyResultIsSuccessWithNote ==
    (Parsed /\ results[1].assembly_code = <<>>
            /\ results[1].decompiled_code = <<>>)
        => (result[1].success = TRUE /\ CarriesNote)

\* How often step e stands in a trace.
Count(t, e) == Cardinality({ i \in DOMAIN t : t[i] = e })

\* C22: a call launches the tool at most once - no launch follows a
\* failed or timed-out run - and returns one outcome.
C22_NoRetry ==
    \A r \in Requests :
        /\ Count(trace[r], "launch") <= 1
        /\ Count(trace[r], "succeed") + Count(trace[r], "fail")
              = (IF pc[r] = "done" THEN 1 ELSE 0)
        /\ Count(trace[r], "return") = (IF pc[r] = "done" THEN 1 ELSE 0)
        /\ pc[r] = "done" <=> result[r] # None
        /\ (run[r] # None /\ ~run[r].success) =>
              pc[r] = "done"

\* C22 witness: a call whose run timed out has returned, the tool
\* launched once.
C22_Witness ==
    \E r \in Requests :
        /\ pc[r] = "done"
        /\ timed_out[r]
        /\ Count(trace[r], "launch") = 1
        /\ result[r].success = FALSE

\* C23 (as claimed): the deadline given to the wait for the tool is
\* what the caller wants when the caller wants one, and 300 seconds
\* otherwise.
C23_DeadlineFollowsTheRequest ==
    pc[1] \in {"wait", "reap"} =>
        Deadline(arg.timeout)
            = (IF arg.timeout # 0 THEN arg.timeout ELSE 300)

\* C24: on a host without the analyzeHeadless launcher the
\* GhidraDecompiler is never constructed, no request is taken up by
\* the /decompile route and no call of decompile_binary returns
\* anything.
C24_MissingToolFailsAtStartup ==
    ~service.launcher =>
        /\ service.state \in {"unbuilt", "failed"}
        /\ \A r \in Requests :
              /\ http[r] = NoRequest
              /\ pc[r] = "idle"
              /\ result[r] = None

\* C24 witness: the construction has failed on a host without the
\* launcher.
C24_Witness == ~service.launcher /\ service.state = "failed"

\* The upload has no file name or reports more than the ceiling.
Refused(u) == u.filename = <<>> \/ u.size > MaxFileSize

\* C25: an upload without a file name or with a reported size over
\* 100 MB is answered with status 400; no temporary file is made for
\* it, neither validate_binary_file nor decompile_binary is called.
C25_BadUploadRejectedFirst ==
    \A r \in Requests :
        (http[r].upload # None /\ Refused(http[r].upload)) =>
            /\ http[r].stage = "responded"
            /\ http[r].response.status = 400
            /\ ~http[r].temp
            /\ http[r].validation = None
            /\ pc[r] = "idle"
            /\ trace[r] = <<>>

\* C25 witness: a named upload of a small file that reports a size
\* over the ceiling has been refused.
C25_Witness ==
    \E r \in Requests :
        /\ http[r].stage = "responded"
        /\ http[r].upload.filename # <<>>
        /\ http[r].upload.size > MaxFileSize
        /\ http[r].upload.file.size <= MaxFileSize
        /\ http[r].response.status = 400

\* C26: the results are parsed only in a call whose run has returned
\* success; a call whose run failed or timed out holds no parsed
\* results and returns none.
C26_ParseOnlyAfterSuccess ==
    \A r \in Requests :
        /\ (results[r] # None
             \/ Count(trace[r], "parse") > 0
             \/ pc[r] \in {"parse_asm", "parse_dec", "parse_meta"})
              => (run[r] # None /\ run[r].success)
        /\ (run[r] # None /\ ~run[r].success) =>
              /\ results[r] = None
              /\ read_from[r] = {}
              /\ pc[r] = "done" =>
                    /\ result[r].assembly_code = <<>>
                    /\ result[r].decompiled_code = <<>>
                    /\ result[r].metadata = EmptyDict

\* C26 witness: one call has parsed after a successful run, another
\* has returned after a run that timed out.
C26_Witness ==
    \E r, q \in Requests :
        /\ results[r] # None /\ run[r].success
        /\ pc[q] = "done" /\ timed_out[q] /\ results[q] = None

\* The place of a step in the order of the call.
Rank(e) ==
    CASE e = "create" -> 1
      [] e = "script" -> 2
      [] e = "launch" -> 3
      [] e = "parse" -> 4
      [] e \in {"succeed", "fail"} -> 5
      [] e \in {"destroy", "destroy_noop", "destroy_failed"} -> 6
      [] e = "return" -> 7

\* C27: the steps of a call come in the order create, script, launch,
\* parse or failure, destroy; the tool is launched only after the
\* script was written, the success outcome is built only after the
\* parse, and the destroy step is the last before the return.
C27_StepsInOrder ==
    \A r \in Requests :
        LET t == trace[r]
        IN  /\ \A i, j \in DOMAIN t : i < j => Rank(t[i]) < Rank(t[j])
            /\ Count(t, "launch") > 0 => Count(t, "script") > 0
            /\ Count(t, "script") > 0 => Count(t, "create") > 0
            /\ Count(t, "parse") > 0 => Count(t, "launch") > 0
            /\ Count(t, "succeed") > 0 => Count(t, "parse") > 0
            /\ pc[r] = "done" =>
                  /\ Len(t) >= 3
                  /\ t[Len(t)] = "return"
                  /\ Rank(t[Len(t) - 1]) = 6
                  /\ Rank(t[Len(t) - 2]) = 5

\* C27 witness: a call has gone through all its steps to a success.
C27_Witness ==
    \E r \in Requests :
        trace[r] = <<"create", "script", "launch", "parse", "succeed",
                     "destroy", "return">>

\* The outcome of call r as its path fixed it, before the finally
\* clause: the parsed results as a success, the failed run as a
\* failure, the classified exception of mkdir or of the script.
Determined(r, value) ==
    IF run[r] # None /\ run[r].success
    THEN results[r] # None /\ value = SuccessResult(results[r])
    ELSE IF run[r] # None
    THEN value = FailureResult(run[r].error)
    ELSE \E e \in ErrorTexts \cup {ENoEntry} : value = ErrorResponse(e)

\* C28: whether the removal of the workspace succeeds or fails, the
\* call raises nothing and returns the outcome fixed before it.
C28_CleanupKeepsOutcome ==
    \A r \in Requests :
        pc[r] = "done" => (Returned(r) /\ Determined(r, result[r]))

\* C28 witness: the removal failed at the end of a successful call and
\* at the end of a failed one.
C28_Witness ==
    \E r, q \in Requests :
        /\ pc[r] = "done" /\ Count(trace[r], "destroy_failed") = 1
        /\ result[r].success = TRUE
        /\ pc[q] = "done" /\ Count(trace[q], "destroy_failed") = 1
        /\ result[q].success = FALSE

\* C29: a call that returns while its workspace directory is already
\* gone leaves the filesystem as it is and returns its outcome, no
\* error raised.
C29_CleanupIsIdempotent ==
    [][\A r \in Requests :
          (Returns(r) /\ ~Exists(fs, project_dir'[r])) =>
              /\ fs' = fs
              /\ Cleanup(Cleanup(fs, project_dir'[r]), project_dir'[r]) = fs
              /\ result'[r] # None
              /\ "success" \in DOMAIN result'[r]]_vars

\* C29 witness: a call that had made its workspace found it removed by
\* another call when it returned.
C29_Witness ==
    \E r \in Requests :
        /\ pc[r] = "done"
        /\ Count(trace[r], "create") = 1
        /\ Count(trace[r], "destroy_noop") = 1

\* The lines of the metadata file as the loop sees them: the content
\* stripped, then split at line feeds.
SeenLines == Split(Strip(Join(arg.lines, LF)), LF)

HasColon(line) == \E i \in DOMAIN line : line[i] = ":"

FirstColon(line) ==
    CHOOSE k \in DOMAIN line :
        line[k] = ":" /\ \A j \in 1..(k - 1) : line[j] # ":"

KeyOf(line) == NormalKey(SubSeq(line, 1, FirstColon(line) - 1))
ValueOf(line) == Strip(SubSeq(line, FirstColon(line) + 1, Len(line)))

\* C30: every line with a colon is split at its first colon; the key
\* is lowercased, its inner blanks made underscores; the value keeps
\* the later colons; a line without a colon adds nothing.  The lines
\* "Program: foo" and "Language: x86:LE:32:default" give program ->
\* "foo" and language -> "x86:LE:32:default".
C30_SplitAtFirstColon ==
    ret # None =>
        /\ DOMAIN ret = {<<"filename">>}
              \cup { KeyOf(SeenLines[i]) :
                        i \in { j \in DOMAIN SeenLines :
                                    HasColon(SeenLines[j]) } }
        /\ \A i \in DOMAIN SeenLines :
              (HasColon(SeenLines[i])
               /\ \A j \in (i + 1)..Len(SeenLines) :
                     HasColon(SeenLines[j])
                         => KeyOf(SeenLines[j]) # KeyOf(SeenLines[i]))
                  => ret[KeyOf(SeenLines[i])] = ValueOf(SeenLines[i])
        /\ \A k \in DOMAIN ret :
              Lower(k) = k /\ \A i \in DOMAIN k : k[i] # " "
        /\ arg.lines = << <<"Program", ":", " ", "foo">>,
                          <<"Language", ":", " ", "x86", ":", "LE", ":",
                            "32", ":", "default">> >>
              => /\ DOMAIN ret
                      = {<<"filename">>, <<"program">>, <<"language">>}
                 /\ ret[<<"program">>] = <<"foo">>
                 /\ ret[<<"language">>]
                      = <<"x86", ":", "LE", ":", "32", ":", "default">>

\* C30 witness: the two lines of the example, and a line without a
\* colon after them, have been parsed.
C30_Witness ==
    /\ ret # None
    /\ Len(arg.lines) = 3
    /\ arg.lines[1] = <<"Program", ":", " ", "foo">>
    /\ arg.lines[2] = <<"Language", ":", " ", "x86", ":", "LE", ":",
                       "32", ":", "default">>
    /\ ~HasColon(arg.lines[3]) /\ arg.lines[3] # <<>>
    /\ Cardinality(DOMAIN ret) = 3

\* The lines seen that hold a colon and normalize to key k.
LinesOf(k) ==
    { i \in DOMAIN SeenLines :
        HasColon(SeenLines[i]) /\ KeyOf(SeenLines[i]) = k }

Last(S) == CHOOSE i \in S : \A j \in S : j <= i

\* C31: a key that several lines normalize to is held once, with the
\* value of the last of them; a line whose key normalizes to filename
\* replaces the filename seeded from the request, and the seed stays
\* only when no line has that key.
C31_LastWriteWins ==
    ret # None =>
        \A k \in DOMAIN ret :
            IF LinesOf(k) # {}
            THEN ret[k] = ValueOf(SeenLines[Last(LinesOf(k))])
            ELSE k = <<"filename">> /\ ret[k] = Filename

\* C31 witness: two lines for the key program with different values and
\* a line for the key filename have been parsed; the later program
\* value and the file's filename are held.
C31_Witness ==
    /\ ret # None
    /\ Cardinality(LinesOf(<<"program">>)) = 2
    /\ \E i, j \in LinesOf(<<"program">>) :
          ValueOf(SeenLines[i]) # ValueOf(SeenLines[j])
    /\ LinesOf(<<"filename">>) # {}
    /\ ret[<<"filename">>] = <<"other.bin">>
    /\ ret[<<"filename">>] # Filename

\* C34: once GhidraDecompiler is constructed the staging root exists,
\* whatever calls have begun, failed, succeeded or cleaned up; what
\* the calls remove are directories under it.
C34_StagingRootStays ==
    /\ service.state = "ready" => Exists(fs, StagingRoot)
    /\ \A d \in DOMAIN fs : d = StagingRoot \/ d[1] = temp_dir

\* C34 witness: a call has removed its directory, another has failed
\* to, and the root is there.
C34_Witness ==
    /\ Exists(fs, StagingRoot)
    /\ \E r, q \in Requests :
          /\ pc[r] = "done" /\ Count(trace[r], "destroy") = 1
          /\ pc[q] = "done" /\ result[q].success = FALSE

\* The text of stderr, line by line.
RawLines == Split(arg.stderr_str, LF)

\* A line is a known-benign message: some pattern of the table fits it
\* from its start, letter case set aside.
Benign(line) ==
    \E k \in DOMAIN ignore_patterns :
        LET p == ignore_patterns[k]
            l == Lower(line)
            n == Len(p.head)
        IN  /\ Len(l) >= n
            /\ SubSeq(l, 1, n) = Lower(p.head)
            /\ IF p.open
               THEN Contains(SubSeq(l, n + 1, Len(l)), Lower(p.mid))
               ELSE Len(l) = n

Blank(line) == \A i \in DOMAIN line : IsSpace(line[i])

Survives(line) == ~Blank(line) /\ ~Benign(line)

\* C32 (as claimed): the filtered text is exactly the input lines that
\* are not blank and match no benign pattern, in their order.
C32_ExactlyTheGenuineLines ==
    ret # None =>
        ret.first = Join(SelectSeq(RawLines, Survives), LF)

\* The lines without the blanks around them.
StrippedLines == [i \in DOMAIN RawLines |-> Strip(RawLines[i])]

\* C32 (amended): the filtered text is the input lines, each without
\* the blanks around it, that are not blank and then match no benign
\* pattern in any letter case, in their order; a line that is not a
\* known-benign message survives with all its text but those blanks.
C32_TheGenuineLinesStripped ==
    ret # None =>
        ret.first = Join(SelectSeq(StrippedLines, Survives), LF)

\* C32 witness: a text with a genuine line wrapped in blanks and a
\* benign line in another letter case has been filtered; the genuine
\* line is all that is left.
C32_Witness ==
    /\ ret # None
    /\ \E i \in DOMAIN RawLines :
          RawLines[i] = <<" ", "ERROR", ":", " ", "Boom", " ">>
    /\ \E i \in DOMAIN RawLines :
          RawLines[i] = <<"info", ":", " ", "Started">>
    /\ ret.first = <<"ERROR", ":", " ", "Boom">>

\* C40: filtering the filtered text again returns the same text.
C40_FilterIsIdempotent ==
    (ret # None /\ ret.passes = 2) => ret.text = ret.first

\* C40 witness: a text that the first pass changed and did not empty
\* has gone through the filter twice.
C40_Witness ==
    /\ ret # None
    /\ ret.passes = 2
    /\ ret.first # arg.stderr_str
    /\ ret.first # <<>>
    /\ \E i \in DOMAIN RawLines : RawLines[i] # Strip(RawLines[i])

\* C39: a file of exactly 100 * 1024 * 1024 bytes is accepted - valid,
\* with or without the caution - and a file of one byte more is
\* refused as too large.
C39_CeilingIsInclusive ==
    (ret # None /\ arg.file_path # Missing) =>
        /\ arg.file_path.size = 100 * 1024 * 1024 =>
              /\ ret.is_valid
              /\ ret.message \in {ValidText, CautionText}
        /\ arg.file_path.size = 100 * 1024 * 1024 + 1 =>
              /\ ~ret.is_valid
              /\ ret.message = FileTooLargeText
              /\ ret.message[1] = "File too large"

\* C39 witness: a file of the ceiling size that starts with a known
\* signature has been validated.
C39_Witness ==
    /\ ret # None
    /\ arg.file_path # Missing
    /\ arg.file_path.size = 100 * 1024 * 1024
    /\ is_binary(ReadMagic(arg.file_path))
    /\ ret.is_valid

C36_NoChildOutlivesTheRun ==
    \A r \in Requests :
        (pc[r] = "done" /\ Count(trace[r], "launch") = 1)
            => child[r] = "reaped"

\* The exception of the parser is raised in this step of call r.
ParseFails(r) == raised[r] # "parse" /\ raised'[r] = "parse"

\* C37: when reading the result files raises, the call returns in the
\* same step with success true, the assembly and the decompiled text
\* as gathered until then, and the metadata gathered until then with
\* the text of the exception under parse_error.
C37_ParseErrorKeepsTheFields ==
    [][\A r \in Requests :
          ParseFails(r) =>
              /\ pc'[r] = "done"
              /\ result'[r].success = TRUE
              /\ DOMAIN result'[r]
                    = {"success", "assembly_code", "decompiled_code",
                       "metadata"}
              /\ result'[r].assembly_code = results[r].assembly_code
              /\ result'[r].decompiled_code = results[r].decompiled_code
              /\ \E e \in ErrorTexts :
                    result'[r].metadata
                        = DictSet(results[r].metadata, <<"parse_error">>, e)]_vars

\* C37 witness: the assembly was read, then reading the decompiled
\* file raised; the call has returned the assembly and the error.
C37_Witness ==
    /\ pc[1] = "done"
    /\ raised[1] = "parse"
    /\ result[1].success = TRUE
    /\ result[1].assembly_code # <<>>
    /\ DecFile \in arg.present /\ Strip(arg.dec) # <<>>
    /\ result[1].decompiled_code = <<>>
    /\ <<"parse_error">> \in DOMAIN result[1].metadata

\* The listed paths that exist on the host, by their place in the list.
ListedThere ==
    { i \in DOMAIN java_paths : java_paths[i] \in arg.host.existing }

\* The home the java command of the host reports, if there is such a
\* command and the home exists.
JavaReports ==
    IF arg.host.java = "present" /\ OtherHome \in arg.host.existing
    THEN OtherHome ELSE ""

\* C33 (as claimed): the Java home is JAVA_HOME when that is set; else
\* the first listed path that exists; else the home the java command
\* reports; else empty.
C33_JavaHomeOrder ==
    ret # None =>
        ret.java_home =
            IF arg.host.JAVA_HOME.set THEN arg.host.JAVA_HOME.value
            ELSE IF ListedThere # {}
            THEN java_paths[CHOOSE i \in ListedThere :
                                \A j \in ListedThere : i <= j]
            ELSE JavaReports

\* Call r is in the wait for its tool, the tool still running.
Blocked(r) == pc[r] = "wait" /\ child[r] = "running"

\* C35: while call 1 waits for its tool, call 2 is never without a
\* step to take until it has returned; and if the tool of call 1 never
\* ends, call 2 still returns, call 1 waiting all the while.
C35_WaitDoesNotBlockOthers ==
    /\ [](Blocked(1) /\ pc[2] # "done"
            => ENABLED <<Step(2, PairRuns)>>_<<pc, child>>)
    /\ (<>[]Blocked(1)) => <>(Blocked(1) /\ pc[2] = "done")

\* C35 witness: call 2 began after call 1 had launched its tool and
\* has returned a success while call 1 still waits.
C35_Witness ==
    /\ Blocked(1)
    /\ pc[2] = "done"
    /\ result[2].success = TRUE
    /\ Count(trace[2], "launch") = 1

====
